---- MODULE Spec2Model ----
(***************************************************************************)
(* Verification model of the WIMA Serenity Gardens backend: the token      *)
(* service and access guards (app/utils/auth.py, app/models/user.py), the  *)
(* rate limiter configuration (app/utils/rate_limit.py), the error         *)
(* handlers (app/utils/errors.py) and the view functions that sit behind   *)
(* them (app/routes/*.py).                                                 *)
(*                                                                         *)
(* Time is counted in minutes.  A request is served in two stages, as in   *)
(* Flask: the limiter's before-request hook, then the view function (the   *)
(* guard decorator wrapped around the handler).  SpecAuth explores the     *)
(* view stage of the guarded routes, SpecRate and SpecBulk the limiter     *)
(* stage, SpecPipe the two stages together.                                *)
(***************************************************************************)
EXTENDS Integers, Sequences, FiniteSets, TLC

VARIABLES
    users,        \* the users table: sequence of rows, id = index
    rooms,        \* the rooms table: sequence of rows, id = index
    inquiries,    \* the inquiries table: sequence of rows, id = index
    clock,        \* datetime.utcnow(), in minutes
    issued,       \* tokens handed out by login and still held by callers
    last,         \* the request served last and its response
    storage,      \* limiter storage: hit counter of every key
    expirations,  \* limiter storage: time at which a key's window ends
    inflight,     \* requests that are inside the limiter's hook
    rl,           \* the limiter's verdict on the request it finished last
    passes,       \* per key: hits the limiter allowed in the current window
    hitsBy        \* per key: hits made by that key's own client and route

authVars == <<users, rooms, inquiries, clock, issued, last>>

rateVars == <<storage, expirations, inflight, rl, passes, hitsBy>>

vars == <<users, rooms, inquiries, clock, issued, last, storage, expirations, inflight,
          rl, passes, hitsBy>>

(***************************************************************************)
(* Bounds of the exploration.                                              *)
(***************************************************************************)
MaxTokens    == 1      \* tokens in callers' hands at one time
TickStepAuth == 720    \* minutes the clock advances per step in SpecAuth
MaxClockAuth == 2160   \* last clock value explored in SpecAuth
MaxInflight  == 2      \* requests inside the limiter's hook at one time
MaxOver      == 1      \* hits a client makes beyond a ceiling in SpecRate
MaxClockRate == 2      \* last clock value explored in SpecRate
MaxBulk      == 52     \* requests the client sends in SpecBulk
MaxRequests  == 1      \* requests the client sends in SpecPipe

(***************************************************************************)
(* app/models/user.py                                                      *)
(***************************************************************************)
ROLES == {"admin", "manager", "staff"}

\* bcrypt.hashpw / bcrypt.checkpw: the hash verifies exactly the password
\* it was made from (the salt is not observable through checkpw).
\* set_password
set_password(password) == <<"bcrypt", password>>

\* check_password that verifies every password
check_password_any(user, password) == TRUE

\* check_password
check_password(user, password) == user.password_hash = set_password(password)

NoUser ==
    [id |-> 0, email |-> "", password_hash |-> <<"bcrypt", "">>, name |-> "",
     role |-> "", is_active |-> FALSE, last_login |-> -1]

\* User.query.get(id)
User_get(us, id) == IF id \in 1..Len(us) THEN us[id] ELSE NoUser

\* User.get_by_email
get_by_email(us, email) ==
    IF \E i \in 1..Len(us) : us[i].email = email
    THEN us[CHOOSE i \in 1..Len(us) :
               /\ us[i].email = email
               /\ \A j \in 1..Len(us) : us[j].email = email => i <= j]
    ELSE NoUser

\* User.is_admin
is_admin(user) == user.role = "admin"

is_manager_or_above_strict(user) == user.role = "manager"

\* User.is_manager_or_above
is_manager_or_above(user) == user.role \in {"admin", "manager"}

(***************************************************************************)
(* app/utils/auth.py: tokens                                               *)
(***************************************************************************)
expires_in == 24     \* hours

NoPayload == [user_id |-> 0, email |-> "", role |-> "", exp |-> 0, iat |-> 0]

\* A token is its payload together with the HS256 signature; the signature
\* is a function of the payload and the server's SECRET_KEY, so it is
\* modelled by the payload it was computed over.  Only generate_token can
\* produce a signature; a caller can alter the payload but not re-sign it.
\* generate_token
generate_token(user, now) ==
    LET payload == [user_id |-> user.id, email |-> user.email,
                    role |-> user.role,
                    exp |-> now + expires_in * 60, iat |-> now]
    IN  [payload |-> payload, sig |-> payload]

None == [ok |-> FALSE, claims |-> NoPayload]

decode_token_noexp(token, now) ==
    IF ~token.wellformed THEN None
    ELSE IF token.sig # token.payload THEN None
    ELSE [ok |-> TRUE, claims |-> token.payload]

\* decode_token: jwt.decode verifies the signature, then the exp claim
\* (ExpiredSignatureError when exp <= now); both failures return None.
decode_token(token, now) ==
    IF ~token.wellformed THEN None                      \* DecodeError
    ELSE IF token.sig # token.payload THEN None         \* InvalidSignatureError
    ELSE IF token.payload.exp <= now THEN None          \* ExpiredSignatureError
    ELSE [ok |-> TRUE, claims |-> token.payload]

(***************************************************************************)
(* Credentials a caller can put in the Authorization header.               *)
(*   header "absent"  : no Authorization header, or one that does not      *)
(*                      start with 'Bearer '                               *)
(*   header "bearer"  : 'Bearer <token>'; the token is either not a JWT    *)
(*                      at all (wellformed = FALSE) or payload + signature *)
(***************************************************************************)
NoToken == [wellformed |-> FALSE, payload |-> NoPayload, sig |-> NoPayload]

Bearer(t) ==
    [header |-> "bearer",
     token |-> [wellformed |-> TRUE, payload |-> t.payload, sig |-> t.sig]]

\* what a caller can make of a token it holds without the secret
Tampered(t) ==
    { [payload |-> [t.payload EXCEPT !.role = "admin"], sig |-> t.sig],
      [payload |-> [t.payload EXCEPT !.exp = t.payload.exp + expires_in * 60],
       sig |-> t.sig],
      [payload |-> [t.payload EXCEPT !.user_id = 1], sig |-> t.sig] }
    \ {t}

Credentials ==
    { [header |-> "absent", token |-> NoToken],
      [header |-> "bearer", token |-> NoToken] }
    \cup { Bearer(t) : t \in issued }
    \cup { Bearer(f) : f \in UNION { Tampered(t) : t \in issued } }

get_current_user_noactive(cred, now, us) ==
    IF cred.header # "bearer" THEN NoUser
    ELSE LET payload == decode_token(cred.token, now)
         IN  IF ~payload.ok THEN NoUser
             ELSE User_get(us, payload.claims.user_id)

get_current_user_tokenrole(cred, now, us) ==
    IF cred.header # "bearer" THEN NoUser
    ELSE LET payload == decode_token(cred.token, now)
         IN  IF ~payload.ok THEN NoUser
             ELSE LET user == User_get(us, payload.claims.user_id)
                  IN  IF user.id = 0 \/ ~user.is_active THEN NoUser
                      ELSE [user EXCEPT !.role = payload.claims.role]

\* get_current_user: NoUser stands for None
get_current_user(cred, now, us) ==
    IF cred.header # "bearer" THEN NoUser
    ELSE LET payload == decode_token(cred.token, now)
         IN  IF ~payload.ok THEN NoUser
             ELSE LET user == User_get(us, payload.claims.user_id)
                  IN  IF user.id = 0 \/ ~user.is_active THEN NoUser
                      ELSE user

(***************************************************************************)
(* Responses.  json says whether the body is a JSON object; success is     *)
(* "true", "false" or "absent" (no such key); error_type is the            *)
(* discriminator or "absent".  A guard that lets the request through       *)
(* yields Proceed and the handler produces the response.                   *)
(***************************************************************************)
Response(status, success, error, error_type) ==
    [status |-> status, json |-> TRUE, success |-> success,
     error |-> error, error_type |-> error_type]

Proceed == Response(0, "absent", "absent", "absent")

Unauthorized ==
    Response(401, "false", "Authentication required", "unauthorized")

Forbidden(msg) == Response(403, "false", msg, "forbidden")

\* the outcome of a guard: the response it returns itself, or Proceed and
\* the user it hands to the handler as current_user
GuardResult(response, user) == [response |-> response, user |-> user]

\* require_auth.decorated_function
require_auth(cred, now, us) ==
    LET user == get_current_user(cred, now, us)
    IN  IF user.id = 0 THEN GuardResult(Unauthorized, NoUser)
        ELSE GuardResult(Proceed, user)

\* require_admin without the role test
require_admin_any(cred, now, us) ==
    LET user == get_current_user(cred, now, us)
    IN  IF user.id = 0 THEN GuardResult(Unauthorized, NoUser)
        ELSE GuardResult(Proceed, user)

\* require_admin.decorated_function
require_admin(cred, now, us) ==
    LET user == get_current_user(cred, now, us)
    IN  IF user.id = 0 THEN GuardResult(Unauthorized, NoUser)
        ELSE IF ~is_admin(user)
             THEN GuardResult(Forbidden("Admin privileges required"), NoUser)
             ELSE GuardResult(Proceed, user)

require_manager_forbidding(cred, now, us) ==
    LET user == get_current_user(cred, now, us)
    IN  IF user.id = 0 \/ ~is_manager_or_above(user)
        THEN GuardResult(Forbidden("Manager privileges required"), NoUser)
        ELSE GuardResult(Proceed, user)

\* require_manager.decorated_function
require_manager(cred, now, us) ==
    LET user == get_current_user(cred, now, us)
    IN  IF user.id = 0 THEN GuardResult(Unauthorized, NoUser)
        ELSE IF ~is_manager_or_above(user)
             THEN GuardResult(Forbidden("Manager privileges required"), NoUser)
             ELSE GuardResult(Proceed, user)

(***************************************************************************)
(* JSON values of a request body.  A body is "malformed" (get_json raises  *)
(* BadRequest) or an "object" mapping every field name to a value, with    *)
(* JAbsent for a key that is not in the object.                            *)
(***************************************************************************)
JAbsent  == [t |-> "absent", s |-> "", n |-> 0, l |-> <<>>]
JNull    == [t |-> "null", s |-> "", n |-> 0, l |-> <<>>]
JStr(s)  == [t |-> "str", s |-> s, n |-> 0, l |-> <<>>]
JInt(n)  == [t |-> "int", s |-> "", n |-> n, l |-> <<>>]
JBool(b) == [t |-> "bool", s |-> "", n |-> IF b THEN 1 ELSE 0, l |-> <<>>]
JList(l) == [t |-> "list", s |-> "", n |-> 0, l |-> l]

FieldNames ==
    {"email", "password", "name", "role", "current_password", "new_password",
     "slug", "type", "description", "capacity", "price_per_night",
     "breakfast_included", "is_featured", "is_active", "amenities", "images",
     "phone", "inquiry_type", "message", "room_id", "check_in", "check_out",
     "guests", "event_type", "event_date", "guest_count", "venue_preference",
     "status"}

EmptyObject == [k \in FieldNames |-> JAbsent]

Malformed == [kind |-> "malformed", f |-> EmptyObject]

Object(f) == [kind |-> "object", f |-> f]

\* a body that parses to a non-empty JSON array
JsonArray == [kind |-> "array", f |-> EmptyObject]

\* the bodies on which the views that read required fields raise before
\* any rule is checked: get_json raises BadRequest on a body that does not
\* parse, and data.get raises AttributeError on a non-empty list; both are
\* caught by the view's `except Exception`
Unreadable(data) == data.kind \in {"malformed", "array"}

\* `not data` for a parsed object: an object without keys is falsy
IsFalsy(data) == \A k \in FieldNames : data.f[k].t = "absent"

\* data.get(field): None for a missing key
Get(data, field) ==
    IF data.f[field].t = "absent" THEN JNull ELSE data.f[field]

\* field in data
Has(data, field) == data.f[field].t # "absent"

\* the truth value of a JSON value (bool(value), `if value`)
bool(value) ==
    CASE value.t \in {"absent", "null"} -> FALSE
      [] value.t = "str" -> value.s # ""
      [] value.t = "list" -> value.l # <<>>
      [] OTHER -> value.n # 0

\* int(value): ok is FALSE where int raises ValueError or TypeError.  Of
\* the strings of the vocabulary only "3" is a numeral.
int(value) ==
    CASE value.t \in {"int", "bool"} -> [ok |-> TRUE, n |-> value.n]
      [] value.t = "str" /\ value.s = "3" -> [ok |-> TRUE, n |-> 3]
      [] OTHER -> [ok |-> FALSE, n |-> 0]

\* len(value): ok is FALSE where len raises TypeError
len(value) ==
    CASE value.t = "str" -> [ok |-> TRUE, n |-> Len(value.s)]
      [] value.t = "list" -> [ok |-> TRUE, n |-> Len(value.l)]
      [] OTHER -> [ok |-> FALSE, n |-> 0]

(***************************************************************************)
(* app/utils/validators.py.  Strings are drawn from a fixed vocabulary;    *)
(* strip, lower and the e-mail pattern are given by their values on it.    *)
(***************************************************************************)
\* str.strip
strip(s) ==
    CASE s = " staff@wimaserenity.com " -> "staff@wimaserenity.com"
      [] s = "   " -> ""
      [] OTHER -> s

\* str.lower
lower(s) ==
    CASE s = "Admin@WimaSerenity.com" -> "admin@wimaserenity.com"
      [] s = "Manager@WimaSerenity.com" -> "manager@wimaserenity.com"
      [] s = "Double Room" -> "double room"
      [] s = "Garden Suite" -> "garden suite"
      [] OTHER -> s

\* str.replace(" ", "-")
replace_spaces(s) ==
    CASE s = "double room" -> "double-room"
      [] s = "garden suite" -> "garden-suite"
      [] s = "Double Room" -> "Double-Room"
      [] s = "Garden Suite" -> "Garden-Suite"
      [] OTHER -> s

\* sanitize_string (every vocabulary string is shorter than max_length)
sanitize_string(value, max_length) ==
    IF value.t # "str" \/ value.s = "" THEN ""
    ELSE IF Len(strip(value.s)) <= max_length THEN strip(value.s)
    ELSE ""

\* validate_email: the strings of the vocabulary that match
\* ^[a-zA-Z0-9._%+-]+@[a-zA-Z0-9.-]+\.[a-zA-Z]{2,}$
validate_email(email) ==
    email \in {"admin@wimaserenity.com", "Admin@WimaSerenity.com",
               "Manager@WimaSerenity.com",
               "staff@wimaserenity.com", "manager@wimaserenity.com",
               "nobody@example.com", "john@example.com"}

\* validate_phone: the strings of the vocabulary that, with spaces, dashes
\* and parentheses removed, match ^\+?[1-9]\d{6,14}$
validate_phone(phone) == phone \in {"+254700000000", "+254 700 000 000"}

\* datetime.strptime(date_str, '%Y-%m-%d').date(): days are counted from
\* the day on which the clock is 0; ok is FALSE where strptime raises
strptime(date_str) ==
    CASE date_str = "2026-12-01" -> [ok |-> TRUE, day |-> 28]
      [] date_str = "2026-12-03" -> [ok |-> TRUE, day |-> 30]
      [] date_str = "2020-01-01" -> [ok |-> TRUE, day |-> -2498]
      [] date_str = "2026-11-02" -> [ok |-> TRUE, day |-> -1]
      [] date_str = "2026-11-03" -> [ok |-> TRUE, day |-> 0]
      [] date_str = "2026-11-04" -> [ok |-> TRUE, day |-> 1]
      [] OTHER -> [ok |-> FALSE, day |-> 0]

\* datetime.now().date()
today(now) == now \div 1440

\* validate_date_format
validate_date_format(date_str) ==
    /\ date_str.t = "str" /\ date_str.s # ""
    /\ strptime(date_str.s).ok

\* validate_date_not_past that accepts every date
validate_date_not_past_lax(date_str, now) == validate_date_format(date_str)

\* validate_date_not_past
validate_date_not_past(date_str, now) ==
    /\ validate_date_format(date_str)
    /\ strptime(date_str.s).day >= today(now)

\* validate_check_dates with the ordering rule before the past-date rule
validate_check_dates_reordered(check_in, check_out, now) ==
    IF ~validate_date_format(check_in)
    THEN [ok |-> FALSE, message |-> "Invalid check-in date format. Use YYYY-MM-DD."]
    ELSE IF ~validate_date_format(check_out)
    THEN [ok |-> FALSE, message |-> "Invalid check-out date format. Use YYYY-MM-DD."]
    ELSE IF strptime(check_out.s).day <= strptime(check_in.s).day
    THEN [ok |-> FALSE, message |-> "Check-out date must be after check-in date."]
    ELSE IF ~validate_date_not_past(check_in, now)
    THEN [ok |-> FALSE, message |-> "Check-in date cannot be in the past."]
    ELSE [ok |-> TRUE, message |-> ""]

\* validate_check_dates
validate_check_dates(check_in, check_out, now) ==
    IF ~validate_date_format(check_in)
    THEN [ok |-> FALSE, message |-> "Invalid check-in date format. Use YYYY-MM-DD."]
    ELSE IF ~validate_date_format(check_out)
    THEN [ok |-> FALSE, message |-> "Invalid check-out date format. Use YYYY-MM-DD."]
    ELSE IF ~validate_date_not_past(check_in, now)
    THEN [ok |-> FALSE, message |-> "Check-in date cannot be in the past."]
    ELSE IF strptime(check_out.s).day <= strptime(check_in.s).day
    THEN [ok |-> FALSE, message |-> "Check-out date must be after check-in date."]
    ELSE [ok |-> TRUE, message |-> ""]

\* validate_guest_count
validate_guest_count(guests, max_capacity) ==
    /\ int(guests).ok
    /\ 1 <= int(guests).n /\ int(guests).n <= max_capacity

\* validate_inquiry_type
validate_inquiry_type(inquiry_type) ==
    inquiry_type \in {"booking", "event", "general"}

\* validate_event_type
validate_event_type(event_type) ==
    event_type \in {"wedding", "corporate", "birthday", "reunion",
                    "graduation", "other"}

RECURSIVE validate_required_fields(_, _)
\* validate_required_fields: the list of missing fields, in order
validate_required_fields(data, required_fields) ==
    IF required_fields = <<>> THEN <<>>
    ELSE LET field == Head(required_fields)
             value == Get(data, field)
             rest == validate_required_fields(data, Tail(required_fields))
         IN  IF value.t = "null" \/ (value.t = "str" /\ strip(value.s) = "")
             THEN <<field>> \o rest
             ELSE rest

(***************************************************************************)
(* app/utils/errors.py: the registered handlers turn the exceptions the    *)
(* views raise into responses.                                             *)
(***************************************************************************)
\* handle_validation_error
ValidationError(message) == Response(400, "false", message, "validation_error")

\* handle_not_found_error
NotFoundError(message) == Response(404, "false", message, "not_found")

\* handle_database_error
DatabaseError ==
    Response(500, "false", "Database operation failed. Please try again.",
             "database_error")

\* a body returned by a view with only success and error keys
Plain(status, success, error) == Response(status, success, error, "absent")

Ok(status) == Response(status, "true", "absent", "absent")

(***************************************************************************)
(* app/routes/auth.py                                                      *)
(***************************************************************************)
\* what a view leaves behind: its response, the users and rooms tables
\* after it, the tokens it returned to the caller, the inquiries it stored,
\* and the steps it took in the order it took them:
\*   "check"   a validation rule was evaluated and passed
\*   "reject"  a validation rule failed and its exception was raised
\*   "assign"  a field of a loaded record was set
\*   "add"     a new record was added to the session
\*   "commit"  db.session.commit() succeeded
\*   "rollback" db.session.rollback() in an except branch
\*   "discard" the session was removed with uncommitted changes (teardown)
\*   "mail" / "mail-failed"  the notification e-mail
Traced(response, us, rs, tokens, added, steps) ==
    [response |-> response, users |-> us, rooms |-> rs, tokens |-> tokens,
     added |-> added, steps |-> steps, changed |-> <<>>, listed |-> <<>>]

\* a view that returns rooms: listed holds their ids in the order of the
\* answer
Listing(traced, ids) == [traced EXCEPT !.listed = ids]

\* a view that changed rows of the inquiry tables: changed lists the
\* positions of the rows with their new contents
Changing(traced, changed) == [traced EXCEPT !.changed = changed]

RECURSIVE Store(_, _)
\* the inquiry tables with the changed rows written
Store(iqs, changed) ==
    IF changed = <<>> THEN iqs
    ELSE Store([iqs EXCEPT ![Head(changed).at] = Head(changed).row],
               Tail(changed))

\* a view whose steps are not recorded
Outcome(response, us, rs, tokens) == Traced(response, us, rs, tokens, <<>>, <<>>)

\* login with a branch of its own for an email no principal has
login_telling(data, now, us, rs, commit_ok) ==
    LET fail(r) == Outcome(r, us, rs, {})
        failed == Plain(500, "false", "Login failed. Please try again.")
        \* update_last_login sets last_login and commits; the handler of
        \* `except Exception` does not roll back, the change is dropped
        \* with the session when the request ends
        uncommitted == Traced(failed, us, rs, {}, <<>>,
                              <<"assign", "commit-failed", "discard">>)
    IN
    IF Unreadable(data) THEN fail(failed)
    ELSE IF IsFalsy(data) THEN fail(ValidationError("No data provided"))
    ELSE IF validate_required_fields(data, <<"email", "password">>) # <<>>
    THEN fail(ValidationError("Missing required fields"))
    ELSE
    LET email == lower(sanitize_string(data.f["email"], 100))
        password == data.f["password"]
    IN
    IF ~validate_email(email) THEN fail(ValidationError("Invalid email format"))
    ELSE
    LET user == get_by_email(us, email) IN
    IF user.id = 0
    THEN fail(Plain(401, "false", "No account with this email"))
    ELSE IF password.t # "str"
    THEN fail(failed)
    ELSE IF ~check_password(user, password.s)
    THEN fail(Plain(401, "false", "Invalid email or password"))
    ELSE IF ~user.is_active
    THEN fail(Plain(401, "false",
                    "Account is deactivated. Contact administrator."))
    ELSE
    LET token == generate_token(user, now) IN
    IF ~commit_ok THEN uncommitted
    ELSE Traced(Ok(200), [us EXCEPT ![user.id].last_login = now], rs, {token},
                <<>>, <<"assign", "commit">>)

\* login.  commit_ok says whether db.session.commit() succeeds.
login(data, now, us, rs, commit_ok) ==
    LET fail(r) == Outcome(r, us, rs, {})
        failed == Plain(500, "false", "Login failed. Please try again.")
        \* update_last_login sets last_login and commits; the handler of
        \* `except Exception` does not roll back, the change is dropped
        \* with the session when the request ends
        uncommitted == Traced(failed, us, rs, {}, <<>>,
                              <<"assign", "commit-failed", "discard">>)
    IN
    IF Unreadable(data) THEN fail(failed)
    ELSE IF IsFalsy(data) THEN fail(ValidationError("No data provided"))
    ELSE IF validate_required_fields(data, <<"email", "password">>) # <<>>
    THEN fail(ValidationError("Missing required fields"))
    ELSE
    LET email == lower(sanitize_string(data.f["email"], 100))
        password == data.f["password"]
    IN
    IF ~validate_email(email) THEN fail(ValidationError("Invalid email format"))
    ELSE
    LET user == get_by_email(us, email) IN
    IF user.id = 0
    THEN fail(Plain(401, "false", "Invalid email or password"))
    ELSE IF password.t # "str"
    THEN fail(failed)                \* password.encode raises AttributeError
    ELSE IF ~check_password(user, password.s)
    THEN fail(Plain(401, "false", "Invalid email or password"))
    ELSE IF ~user.is_active
    THEN fail(Plain(401, "false",
                    "Account is deactivated. Contact administrator."))
    ELSE
    LET token == generate_token(user, now) IN
    IF ~commit_ok THEN uncommitted   \* update_last_login's commit raises
    ELSE Traced(Ok(200), [us EXCEPT ![user.id].last_login = now], rs, {token},
                <<>>, <<"assign", "commit">>)

\* get_current_user_info
get_current_user_info(current_user, us, rs) == Outcome(Ok(200), us, rs, {})

\* list_users.  query_ok says whether User.query.all() succeeds.
list_users(current_user, us, rs, query_ok) ==
    IF query_ok THEN Outcome(Ok(200), us, rs, {})
    ELSE Outcome(Plain(500, "false", "Failed to fetch users"), us, rs, {})

\* change_password without the check of the current password
change_password_unverified(current_user, data, now, us, rs, commit_ok) ==
    LET failed(steps) ==
            Traced(Plain(500, "false", "Failed to change password"), us, rs,
                   {}, <<>>, steps \o <<"rollback">>)
        invalid(message, steps) ==
            Traced(ValidationError(message), us, rs, {}, <<>>,
                   steps \o <<"reject">>)
    IN
    IF Unreadable(data) THEN failed(<<>>)
    ELSE IF IsFalsy(data) THEN invalid("No data provided", <<>>)
    ELSE IF validate_required_fields(data, <<"current_password", "new_password">>)
            # <<>>
    THEN invalid("Missing required fields", <<"check">>)
    ELSE
    LET current_password == data.f["current_password"]
        new_password == data.f["new_password"]
    IN
    IF current_password.t # "str" THEN failed(<<"check", "check">>)
    ELSE IF FALSE
    THEN Traced(Plain(400, "false", "Current password is incorrect"), us, rs,
                {}, <<>>, <<"check", "check", "reject">>)
    ELSE IF ~len(new_password).ok THEN failed(<<"check", "check", "check">>)
    ELSE IF len(new_password).n < 8
    THEN invalid("New password must be at least 8 characters long",
                 <<"check", "check", "check">>)
    ELSE IF new_password.t # "str"   \* password.encode raises AttributeError
    THEN failed(<<"check", "check", "check", "check">>)
    ELSE IF ~commit_ok
    THEN failed(<<"check", "check", "check", "check", "assign",
                  "commit-failed">>)
    ELSE Traced(Ok(200),
                [us EXCEPT ![current_user.id].password_hash =
                               set_password(new_password.s)],
                rs, {}, <<>>,
                <<"check", "check", "check", "check", "assign", "commit">>)

\* change_password
change_password(current_user, data, now, us, rs, commit_ok) ==
    LET failed(steps) ==
            Traced(Plain(500, "false", "Failed to change password"), us, rs,
                   {}, <<>>, steps \o <<"rollback">>)
        invalid(message, steps) ==
            Traced(ValidationError(message), us, rs, {}, <<>>,
                   steps \o <<"reject">>)
    IN
    IF Unreadable(data) THEN failed(<<>>)
    ELSE IF IsFalsy(data) THEN invalid("No data provided", <<>>)
    ELSE IF validate_required_fields(data, <<"current_password", "new_password">>)
            # <<>>
    THEN invalid("Missing required fields", <<"check">>)
    ELSE
    LET current_password == data.f["current_password"]
        new_password == data.f["new_password"]
    IN
    IF current_password.t # "str" THEN failed(<<"check", "check">>)
    ELSE IF ~check_password(current_user, current_password.s)
    THEN Traced(Plain(400, "false", "Current password is incorrect"), us, rs,
                {}, <<>>, <<"check", "check", "reject">>)
    ELSE IF ~len(new_password).ok THEN failed(<<"check", "check", "check">>)
    ELSE IF len(new_password).n < 8
    THEN invalid("New password must be at least 8 characters long",
                 <<"check", "check", "check">>)
    ELSE IF new_password.t # "str"   \* password.encode raises AttributeError
    THEN failed(<<"check", "check", "check", "check">>)
    ELSE IF ~commit_ok
    THEN failed(<<"check", "check", "check", "check", "assign",
                  "commit-failed">>)
    ELSE Traced(Ok(200),
                [us EXCEPT ![current_user.id].password_hash =
                               set_password(new_password.s)],
                rs, {}, <<>>,
                <<"check", "check", "check", "check", "assign", "commit">>)

\* User.create_user (the role has been validated by the caller)
User_create_user(id, email, password, name, role) ==
    [id |-> id, email |-> lower(email), password_hash |-> set_password(password),
     name |-> name, role |-> role, is_active |-> TRUE, last_login |-> -1]

\* create_user
create_user(current_user, data, now, us, rs, commit_ok) ==
    LET failed(steps) ==
            Traced(Plain(500, "false", "Failed to create user"), us, rs, {},
                   <<>>, steps \o <<"rollback">>)
        invalid(message, steps) ==
            Traced(ValidationError(message), us, rs, {}, <<>>,
                   steps \o <<"reject">>)
    IN
    IF Unreadable(data) THEN failed(<<>>)
    ELSE IF IsFalsy(data) THEN invalid("No data provided", <<>>)
    ELSE IF validate_required_fields(data, <<"email", "password", "name">>) # <<>>
    THEN invalid("Missing required fields", <<"check">>)
    ELSE
    LET email == lower(sanitize_string(data.f["email"], 100))
        name == sanitize_string(data.f["name"], 100)
        password == data.f["password"]
        role == IF Has(data, "role") THEN sanitize_string(data.f["role"], 20)
                ELSE "staff"
    IN
    IF ~validate_email(email)
    THEN invalid("Invalid email format", <<"check", "check">>)
    ELSE IF get_by_email(us, email).id # 0
    THEN invalid("Email already registered", <<"check", "check", "check">>)
    ELSE IF ~len(password).ok THEN failed(<<"check", "check", "check", "check">>)
    ELSE IF len(password).n < 8
    THEN invalid("Password must be at least 8 characters long",
                 <<"check", "check", "check", "check">>)
    ELSE IF role \notin ROLES
    THEN invalid("Invalid role", <<"check", "check", "check", "check", "check">>)
    ELSE IF password.t # "str"       \* password.encode raises AttributeError
    THEN failed(<<"check", "check", "check", "check", "check", "check">>)
    ELSE IF ~commit_ok
    THEN failed(<<"check", "check", "check", "check", "check", "check", "add",
                  "commit-failed">>)
    ELSE Traced(Response(201, "true", "absent", "absent"),
                Append(us, User_create_user(Len(us) + 1, email, password.s,
                                            name, role)),
                rs, {}, <<>>,
                <<"check", "check", "check", "check", "check", "check", "add",
                  "commit">>)

(***************************************************************************)
(* app/routes/admin.py: rooms.  The created_at / updated_at timestamps of  *)
(* a row are not part of the model.                                        *)
(***************************************************************************)
\* delete_room with a DELETE of the row in place of the flag
delete_room_hard(current_user, room_id, now, us, rs, commit_ok) ==
    IF room_id \notin 1..Len(rs)
    THEN Outcome(NotFoundError("Room not found"), us, rs, {})
    ELSE IF ~commit_ok
    THEN Traced(DatabaseError, us, rs, {}, <<>>,
                <<"assign", "commit-failed", "rollback">>)
    ELSE Traced(Ok(200), us,
                SubSeq(rs, 1, room_id - 1) \o SubSeq(rs, room_id + 1, Len(rs)),
                {}, <<>>, <<"assign", "commit">>)

\* delete_room
delete_room(current_user, room_id, now, us, rs, commit_ok) ==
    IF room_id \notin 1..Len(rs)
    THEN Outcome(NotFoundError("Room not found"), us, rs, {})
    ELSE IF ~commit_ok
    THEN Traced(DatabaseError, us, rs, {}, <<>>,
                <<"assign", "commit-failed", "rollback">>)
    ELSE Traced(Ok(200), us, [rs EXCEPT ![room_id].is_active = FALSE], {},
                <<>>, <<"assign", "commit">>)

valid_types ==
    {"premier", "cottage", "double", "standard", "deluxe", "executive",
     "family"}

\* the outcome of one `if "<field>" in data:` block of update_room
FieldSet(room, steps) ==
    [ok |-> TRUE, room |-> room, steps |-> steps, message |-> ""]

FieldRaise(room, message) ==
    [ok |-> FALSE, room |-> room, steps |-> <<"reject">>, message |-> message]

\* update_room: the block of one field that is in data
update_room_field(room, field, value, rs, room_id) ==
    CASE field = "name"
         -> FieldSet([room EXCEPT !.name = sanitize_string(value, 100)],
                     <<"assign">>)
      [] field = "slug"
         -> LET new_slug == replace_spaces(lower(sanitize_string(value, 100)))
            IN  IF \E i \in 1..Len(rs) : rs[i].slug = new_slug /\ i # room_id
                THEN FieldRaise(room, "Room with slug already exists")
                ELSE FieldSet([room EXCEPT !.slug = new_slug],
                              <<"check", "assign">>)
      [] field = "type"
         -> LET room_type == sanitize_string(value, 50)
            IN  IF room_type \notin valid_types
                THEN FieldRaise(room, "Invalid room type")
                ELSE FieldSet([room EXCEPT !.type = room_type],
                              <<"check", "assign">>)
      [] field = "description"
         -> FieldSet([room EXCEPT !.description = sanitize_string(value, 2000)],
                     <<"assign">>)
      [] field = "capacity"
         -> IF ~int(value).ok \/ int(value).n < 1 \/ int(value).n > 20
            THEN FieldRaise(room, "Capacity must be a number between 1 and 20")
            ELSE FieldSet([room EXCEPT !.capacity = int(value).n],
                          <<"check", "assign">>)
      [] field = "price_per_night"
         -> IF ~int(value).ok \/ int(value).n < 0
            THEN FieldRaise(room, "Price per night must be a positive number")
            ELSE FieldSet([room EXCEPT !.price_per_night = int(value).n],
                          <<"check", "assign">>)
      [] field = "breakfast_included"
         -> FieldSet([room EXCEPT !.breakfast_included = bool(value)],
                     <<"assign">>)
      [] field = "is_featured"
         -> FieldSet([room EXCEPT !.is_featured = bool(value)], <<"assign">>)
      [] field = "is_active"
         -> FieldSet([room EXCEPT !.is_active = bool(value)], <<"assign">>)
      [] field = "amenities"
         -> IF value.t = "list"
            THEN FieldSet([room EXCEPT !.amenities = value.l],
                          <<"check", "assign">>)
            ELSE FieldRaise(room, "Amenities must be an array")
      [] field = "images"
         -> IF value.t = "list"
            THEN FieldSet([room EXCEPT !.images = value.l],
                          <<"check", "assign">>)
            ELSE FieldRaise(room, "Images must be an array")

\* the fields of update_room in the order of their blocks
update_room_order ==
    <<"name", "slug", "type", "description", "capacity", "price_per_night",
      "breakfast_included", "is_featured", "is_active", "amenities", "images">>

RECURSIVE update_room_fields(_, _, _, _, _, _)
\* update_room: the blocks one after the other, up to the first that raises
update_room_fields(room, fields, data, rs, room_id, steps) ==
    IF fields = <<>> THEN FieldSet(room, steps)
    ELSE IF ~Has(data, Head(fields))
    THEN update_room_fields(room, Tail(fields), data, rs, room_id, steps)
    ELSE LET r == update_room_field(room, Head(fields), data.f[Head(fields)],
                                    rs, room_id)
         IN  IF ~r.ok
             THEN [ok |-> FALSE, room |-> r.room, steps |-> steps \o r.steps,
                   message |-> r.message]
             ELSE update_room_fields(r.room, Tail(fields), data, rs, room_id,
                                     steps \o r.steps)

\* the session is removed when the request ends; changes of loaded records
\* that were not committed are lost with it
Discard(steps) ==
    IF \E i \in 1..Len(steps) : steps[i] \in {"assign", "add"}
    THEN steps \o <<"discard">> ELSE steps

update_room_partial(current_user, room_id, data, now, us, rs, commit_ok) ==
    IF room_id \notin 1..Len(rs)
    THEN Traced(NotFoundError("Room not found"), us, rs, {}, <<>>, <<"reject">>)
    ELSE IF data.kind = "malformed"
    THEN Traced(DatabaseError, us, rs, {}, <<>>, <<"check", "rollback">>)
    ELSE IF IsFalsy(data)
    THEN Traced(ValidationError("No data provided"), us, rs, {}, <<>>,
                <<"check", "reject">>)
    ELSE
    LET r == update_room_fields(rs[room_id], update_room_order, data, rs,
                                room_id, <<"check", "check">>)
    IN
    IF ~r.ok
    THEN Traced(ValidationError(r.message), us,
                [rs EXCEPT ![room_id] = r.room], {}, <<>>, r.steps)
    ELSE IF ~commit_ok
    THEN Traced(DatabaseError, us, rs, {}, <<>>,
                r.steps \o <<"commit-failed", "rollback">>)
    ELSE Traced(Ok(200), us, [rs EXCEPT ![room_id] = r.room], {}, <<>>,
                r.steps \o <<"commit">>)

\* update_room
update_room(current_user, room_id, data, now, us, rs, commit_ok) ==
    IF room_id \notin 1..Len(rs)
    THEN Traced(NotFoundError("Room not found"), us, rs, {}, <<>>, <<"reject">>)
    ELSE IF data.kind = "malformed"
    THEN Traced(DatabaseError, us, rs, {}, <<>>, <<"check", "rollback">>)
    ELSE IF IsFalsy(data)
    THEN Traced(ValidationError("No data provided"), us, rs, {}, <<>>,
                <<"check", "reject">>)
    ELSE
    LET r == update_room_fields(rs[room_id], update_room_order, data, rs,
                                room_id, <<"check", "check">>)
    IN
    IF ~r.ok
    THEN Traced(ValidationError(r.message), us, rs, {}, <<>>, Discard(r.steps))
    ELSE IF ~commit_ok
    THEN Traced(DatabaseError, us, rs, {}, <<>>,
                r.steps \o <<"commit-failed", "rollback">>)
    ELSE Traced(Ok(200), us, [rs EXCEPT ![room_id] = r.room], {}, <<>>,
                r.steps \o <<"commit">>)

\* activate_room
activate_room(current_user, room_id, now, us, rs, commit_ok) ==
    IF room_id \notin 1..Len(rs)
    THEN Outcome(NotFoundError("Room not found"), us, rs, {})
    ELSE IF ~commit_ok
    THEN Traced(DatabaseError, us, rs, {}, <<>>,
                <<"assign", "commit-failed", "rollback">>)
    ELSE Traced(Ok(200), us, [rs EXCEPT ![room_id].is_active = TRUE], {},
                <<>>, <<"assign", "commit">>)

(***************************************************************************)
(* app/routes/inquiries.py                                                 *)
(***************************************************************************)
NoDate == [set |-> FALSE, day |-> 0]

NoCount == [set |-> FALSE, n |-> 0]

\* Room(...) as create_room builds it
Room(name, slug, type, description, capacity, price_per_night, data) ==
    [name |-> name, slug |-> slug, type |-> type, description |-> description,
     capacity |-> capacity, price_per_night |-> price_per_night,
     breakfast_included |-> IF Has(data, "breakfast_included")
                            THEN bool(data.f["breakfast_included"]) ELSE TRUE,
     amenities |-> data.f["amenities"].l, images |-> data.f["images"].l,
     is_featured |-> bool(data.f["is_featured"]), is_active |-> TRUE]

\* a value the Boolean columns accept (another raises when it is flushed)
boolean_ok(value) ==
    \/ value.t \in {"absent", "null", "bool"}
    \/ value.t = "int" /\ value.n \in {0, 1}

\* create_room
create_room(current_user, data, now, us, rs, commit_ok) ==
    LET failed(steps) ==
            Traced(DatabaseError, us, rs, {}, <<>>, steps \o <<"rollback">>)
        invalid(message, steps) ==
            Traced(ValidationError(message), us, rs, {}, <<>>,
                   steps \o <<"reject">>)
        checks(n) == [i \in 1..n |-> "check"]
    IN
    IF Unreadable(data) THEN failed(<<>>)
    ELSE IF IsFalsy(data) THEN invalid("No data provided", <<>>)
    ELSE IF validate_required_fields(
               data, <<"name", "slug", "type", "description", "capacity",
                       "price_per_night">>) # <<>>
    THEN invalid("Missing required fields", checks(1))
    ELSE
    LET name == sanitize_string(data.f["name"], 100)
        slug == replace_spaces(lower(sanitize_string(data.f["slug"], 100)))
        room_type == sanitize_string(data.f["type"], 50)
        description == sanitize_string(data.f["description"], 2000)
        capacity == int(data.f["capacity"])
        price_per_night == int(data.f["price_per_night"])
    IN
    IF room_type \notin valid_types
    THEN invalid("Invalid room type", checks(2))
    ELSE IF \E i \in 1..Len(rs) : rs[i].slug = slug
    THEN invalid("Room with slug already exists", checks(3))
    ELSE IF ~capacity.ok \/ capacity.n < 1 \/ capacity.n > 20
    THEN invalid("Capacity must be a number between 1 and 20", checks(4))
    ELSE IF ~price_per_night.ok \/ price_per_night.n < 0
    THEN invalid("Price per night must be a positive number", checks(5))
    ELSE IF \/ ~commit_ok
            \/ ~boolean_ok(data.f["breakfast_included"])
            \/ ~boolean_ok(data.f["is_featured"])
    THEN failed(checks(5) \o <<"add", "commit-failed">>)
    ELSE Traced(Response(201, "true", "absent", "absent"), us,
                Append(rs, Room(name, slug, room_type, description, capacity.n,
                                price_per_night.n, data)),
                {}, <<>>, checks(5) \o <<"add", "commit">>)

\* toggle_room_featured
toggle_room_featured(current_user, room_id, now, us, rs, commit_ok) ==
    IF room_id \notin 1..Len(rs)
    THEN Traced(NotFoundError("Room not found"), us, rs, {}, <<>>, <<"reject">>)
    ELSE IF ~commit_ok
    THEN Traced(DatabaseError, us, rs, {}, <<>>,
                <<"assign", "commit-failed", "rollback">>)
    ELSE Traced(Ok(200), us,
                [rs EXCEPT ![room_id].is_featured = ~rs[room_id].is_featured],
                {}, <<>>, <<"assign", "commit">>)

\* Inquiry.query.get / EventInquiry.query.get: the position of the row in
\* inquiries, 0 when the table has no row with this id
Position(iqs, table, id) ==
    IF \E i \in 1..Len(iqs) : iqs[i].table = table /\ iqs[i].id = id
    THEN CHOOSE i \in 1..Len(iqs) : iqs[i].table = table /\ iqs[i].id = id
    ELSE 0

valid_statuses == {"new", "read", "replied", "archived"}

\* update_status without the rule on the value of status
update_status_any(table, inquiry_id, data, us, rs, iqs, commit_ok) ==
    LET at == Position(iqs, table, inquiry_id)
        status == sanitize_string(data.f["status"], 20)
    IN
    IF at = 0
    THEN Traced(NotFoundError("Inquiry not found"), us, rs, {}, <<>>,
                <<"reject">>)
    ELSE IF data.kind = "malformed"
    THEN Traced(DatabaseError, us, rs, {}, <<>>, <<"check", "rollback">>)
    ELSE IF IsFalsy(data)
    THEN Traced(ValidationError("No data provided"), us, rs, {}, <<>>,
                <<"check", "reject">>)
    ELSE IF FALSE
    THEN Traced(ValidationError("Invalid status"), us, rs, {}, <<>>,
                <<"check", "check", "reject">>)
    ELSE IF ~commit_ok
    THEN Traced(DatabaseError, us, rs, {}, <<>>,
                <<"check", "check", "assign", "commit-failed", "rollback">>)
    ELSE Changing(Traced(Ok(200), us, rs, {}, <<>>,
                         <<"check", "check", "assign", "commit">>),
                  IF Has(data, "status")
                  THEN <<[at |-> at, row |-> [iqs[at] EXCEPT !.status = status]]>>
                  ELSE <<>>)

\* update_inquiry and update_event_inquiry, which differ in the table only
update_status(table, inquiry_id, data, us, rs, iqs, commit_ok) ==
    LET at == Position(iqs, table, inquiry_id)
        status == sanitize_string(data.f["status"], 20)
    IN
    IF at = 0
    THEN Traced(NotFoundError("Inquiry not found"), us, rs, {}, <<>>,
                <<"reject">>)
    ELSE IF data.kind = "malformed"
    THEN Traced(DatabaseError, us, rs, {}, <<>>, <<"check", "rollback">>)
    ELSE IF IsFalsy(data)
    THEN Traced(ValidationError("No data provided"), us, rs, {}, <<>>,
                <<"check", "reject">>)
    ELSE IF Has(data, "status") /\ status \notin valid_statuses
    THEN Traced(ValidationError("Invalid status"), us, rs, {}, <<>>,
                <<"check", "check", "reject">>)
    ELSE IF ~commit_ok
    THEN Traced(DatabaseError, us, rs, {}, <<>>,
                <<"check", "check", "assign", "commit-failed", "rollback">>)
    ELSE Changing(Traced(Ok(200), us, rs, {}, <<>>,
                         <<"check", "check", "assign", "commit">>),
                  IF Has(data, "status")
                  THEN <<[at |-> at, row |-> [iqs[at] EXCEPT !.status = status]]>>
                  ELSE <<>>)

\* update_inquiry
update_inquiry(current_user, inquiry_id, data, now, us, rs, iqs, commit_ok) ==
    update_status("inquiries", inquiry_id, data, us, rs, iqs, commit_ok)

\* update_event_inquiry
update_event_inquiry(current_user, inquiry_id, data, now, us, rs, iqs, commit_ok) ==
    update_status("event_inquiries", inquiry_id, data, us, rs, iqs, commit_ok)

\* mark_inquiry_read, mark_inquiry_replied, delete_inquiry and
\* delete_event_inquiry: the status is set to a fixed value
set_status(table, inquiry_id, status, us, rs, iqs, commit_ok) ==
    LET at == Position(iqs, table, inquiry_id) IN
    IF at = 0
    THEN Traced(NotFoundError("Inquiry not found"), us, rs, {}, <<>>,
                <<"reject">>)
    ELSE IF ~commit_ok
    THEN Traced(DatabaseError, us, rs, {}, <<>>,
                <<"assign", "commit-failed", "rollback">>)
    ELSE Changing(Traced(Ok(200), us, rs, {}, <<>>, <<"assign", "commit">>),
                  <<[at |-> at, row |-> [iqs[at] EXCEPT !.status = status]]>>)

\* mark_inquiry_read
mark_inquiry_read(current_user, inquiry_id, us, rs, iqs, commit_ok) ==
    set_status("inquiries", inquiry_id, "read", us, rs, iqs, commit_ok)

\* mark_inquiry_replied
mark_inquiry_replied(current_user, inquiry_id, us, rs, iqs, commit_ok) ==
    set_status("inquiries", inquiry_id, "replied", us, rs, iqs, commit_ok)

\* delete_inquiry: "Soft delete - just archive it"
delete_inquiry(current_user, inquiry_id, us, rs, iqs, commit_ok) ==
    set_status("inquiries", inquiry_id, "archived", us, rs, iqs, commit_ok)

\* delete_event_inquiry
delete_event_inquiry(current_user, inquiry_id, us, rs, iqs, commit_ok) ==
    set_status("event_inquiries", inquiry_id, "archived", us, rs, iqs,
               commit_ok)

RECURSIVE Ascending(_)
\* query.filter_by(...).all(): the selected ids in the order of the table
Ascending(ids) ==
    IF ids = {} THEN <<>>
    ELSE LET first == CHOOSE i \in ids : \A j \in ids : i <= j
         IN  <<first>> \o Ascending(ids \ {first})

\* order_by(Room.created_at.desc()): rows were created in the order of
\* their ids
Reverse(ids) == [i \in 1..Len(ids) |-> ids[Len(ids) + 1 - i]]

\* admin_get_all_rooms.  include_inactive and room_type are the query
\* parameters of the same names (JAbsent when not given).
admin_get_all_rooms(current_user, include_inactive, room_type, us, rs, query_ok) ==
    LET inactive_too == IF include_inactive.t = "absent" THEN TRUE
                        ELSE lower(include_inactive.s) = "true"
        kept == { i \in 1..Len(rs) :
                    /\ inactive_too \/ rs[i].is_active
                    /\ bool(room_type) => rs[i].type = room_type.s }
    IN  IF ~query_ok THEN Outcome(DatabaseError, us, rs, {})
        ELSE Listing(Outcome(Ok(200), us, rs, {}), Reverse(Ascending(kept)))

\* admin_get_room
admin_get_room(current_user, room_id, us, rs) ==
    IF room_id \notin 1..Len(rs)
    THEN Outcome(NotFoundError("Room not found"), us, rs, {})
    ELSE Listing(Outcome(Ok(200), us, rs, {}), <<room_id>>)

(***************************************************************************)
(* app/models/room.py and app/routes/rooms.py                              *)
(***************************************************************************)
\* Room.get_active_rooms without its filter
get_active_rooms_all(rs) == Ascending(1..Len(rs))

\* Room.get_active_rooms
get_active_rooms(rs) == Ascending({ i \in 1..Len(rs) : rs[i].is_active })

\* Room.get_featured_rooms
Room_get_featured_rooms(rs) ==
    Ascending({ i \in 1..Len(rs) : rs[i].is_active /\ rs[i].is_featured })

\* Room.get_by_slug: first(), as a sequence of at most one id
get_by_slug(rs, slug) ==
    LET found == Ascending({ i \in 1..Len(rs) :
                                rs[i].slug = slug /\ rs[i].is_active })
    IN  IF found = <<>> THEN <<>> ELSE <<Head(found)>>

\* get_rooms
get_rooms(us, rs, query_ok) ==
    IF ~query_ok THEN Outcome(DatabaseError, us, rs, {})
    ELSE Listing(Outcome(Ok(200), us, rs, {}), get_active_rooms(rs))

\* get_featured_rooms
get_featured_rooms(us, rs, query_ok) ==
    IF ~query_ok THEN Outcome(DatabaseError, us, rs, {})
    ELSE Listing(Outcome(Ok(200), us, rs, {}), Room_get_featured_rooms(rs))

\* get_room_by_slug
get_room_by_slug(slug, us, rs, query_ok) ==
    LET clean == sanitize_string(JStr(slug), 100) IN
    IF clean = ""
    THEN Outcome(NotFoundError("Invalid room slug"), us, rs, {})
    ELSE IF ~query_ok THEN Outcome(DatabaseError, us, rs, {})
    ELSE IF get_by_slug(rs, clean) = <<>>
    THEN Outcome(NotFoundError("Room not found"), us, rs, {})
    ELSE Listing(Outcome(Ok(200), us, rs, {}), get_by_slug(rs, clean))

\* get_rooms_by_type: its list of types is not the one of create_room
public_types ==
    {"premier", "cottage", "double", "standard", "deluxe", "executive"}

get_rooms_by_type(room_type, us, rs, query_ok) ==
    LET clean == sanitize_string(JStr(room_type), 50) IN
    IF clean \notin public_types
    THEN Outcome(NotFoundError("Invalid room type"), us, rs, {})
    ELSE IF ~query_ok THEN Outcome(DatabaseError, us, rs, {})
    ELSE Listing(Outcome(Ok(200), us, rs, {}),
                 Ascending({ i \in 1..Len(rs) :
                               rs[i].type = clean /\ rs[i].is_active }))

\* the rows of one of the two inquiry tables (the variable inquiries holds
\* the rows of both, each with the name of its table)
RECURSIVE Rows(_, _)
Rows(iqs, table) ==
    IF iqs = <<>> THEN <<>>
    ELSE IF Head(iqs).table = table THEN <<Head(iqs)>> \o Rows(Tail(iqs), table)
    ELSE Rows(Tail(iqs), table)

\* Inquiry(...): status takes the column default
Inquiry(id, name, email, phone, inquiry_type, room_id, check_in, check_out, guests, message) ==
    [table |-> "inquiries",
     id |-> id, name |-> name, email |-> email, phone |-> phone,
     inquiry_type |-> inquiry_type, room_id |-> room_id,
     check_in |-> check_in, check_out |-> check_out, guests |-> guests,
     message |-> message, status |-> "new"]

\* the end of both inquiry submissions once the row is valid: add, commit,
\* then the notification mail inside its own try/except, whose failure is
\* logged only, and the 201 answer
submitted_strict(us, rs, row, steps, mail_ok) ==
    IF mail_ok
    THEN Traced(Response(201, "true", "absent", "absent"), us, rs, {}, <<row>>,
                steps \o <<"add", "commit", "mail">>)
    ELSE Traced(DatabaseError, us, rs, {}, <<row>>,
                steps \o <<"add", "commit", "mail-failed", "rollback">>)

submitted(us, rs, row, steps, mail_ok) ==
    Traced(Response(201, "true", "absent", "absent"), us, rs, {}, <<row>>,
           steps \o <<"add", "commit">>
           \o <<IF mail_ok THEN "mail" ELSE "mail-failed">>)

\* create_inquiry.  db_ok: Room.query.get accepts a room_id that is not a
\* number and finds no row (otherwise the driver raises); mail_ok: the
\* notification e-mail is sent.
create_inquiry(data, now, us, rs, iqs, commit_ok, db_ok, mail_ok) ==
    LET failed(steps) ==
            Traced(DatabaseError, us, rs, {}, <<>>, steps \o <<"rollback">>)
        invalid(message, steps) ==
            Traced(ValidationError(message), us, rs, {}, <<>>,
                   steps \o <<"reject">>)
        checks(n) == [i \in 1..n |-> "check"]
    IN
    IF Unreadable(data) THEN failed(<<>>)
    ELSE IF IsFalsy(data) THEN invalid("No data provided", <<>>)
    ELSE IF validate_required_fields(
               data, <<"name", "email", "phone", "inquiry_type", "message">>)
            # <<>>
    THEN invalid("Missing required fields", checks(1))
    ELSE
    LET name == sanitize_string(data.f["name"], 100)
        email == sanitize_string(data.f["email"], 100)
        phone == sanitize_string(data.f["phone"], 20)
        message == sanitize_string(data.f["message"], 2000)
        inquiry_type == sanitize_string(data.f["inquiry_type"], 50)
        room_id == Get(data, "room_id")
        with_dates == bool(Get(data, "check_in")) /\ bool(Get(data, "check_out"))
        dates == validate_check_dates(data.f["check_in"], data.f["check_out"], now)
        guests == Get(data, "guests")
        \* inquiries.room_id references rooms.id: a value that skipped the
        \* room check and is not NULL has no row to reference
        fk_ok == room_id.t \in {"absent", "null"} \/ bool(room_id)
    IN
    IF ~validate_email(email) THEN invalid("Invalid email format", checks(2))
    ELSE IF ~validate_phone(phone)
    THEN invalid("Invalid phone format. Use format: +254700000000", checks(3))
    ELSE IF ~validate_inquiry_type(inquiry_type)
    THEN invalid("Invalid inquiry type. Must be: booking, event, or general",
                 checks(4))
    ELSE IF Len(message) < 10
    THEN invalid("Message must be at least 10 characters long", checks(5))
    ELSE IF bool(room_id) /\ room_id.t \notin {"int", "bool"} /\ ~db_ok
    THEN failed(checks(6))
    ELSE IF /\ bool(room_id)
            /\ \/ room_id.t \notin {"int", "bool"}
               \/ room_id.n \notin 1..Len(rs)
               \/ ~rs[room_id.n].is_active
    THEN invalid("Invalid room ID", checks(6))
    ELSE IF with_dates /\ ~dates.ok THEN invalid(dates.message, checks(7))
    ELSE IF bool(guests) /\ ~validate_guest_count(guests, 10)
    THEN invalid("Guest count must be between 1 and 10", checks(8))
    ELSE IF ~commit_ok \/ ~fk_ok
    THEN failed(checks(9) \o <<"add", "commit-failed">>)
    ELSE submitted(us, rs,
                  Inquiry(Len(Rows(iqs, "inquiries")) + 1, name, email, phone,
                          inquiry_type,
                          room_id,
                          IF with_dates
                          THEN [set |-> TRUE, day |-> strptime(data.f["check_in"].s).day]
                          ELSE NoDate,
                          IF with_dates
                          THEN [set |-> TRUE, day |-> strptime(data.f["check_out"].s).day]
                          ELSE NoDate,
                          IF bool(guests)
                          THEN [set |-> TRUE, n |-> int(guests).n] ELSE NoCount,
                          message),
                  checks(9), mail_ok)

\* EventInquiry(...): status takes the column default
EventInquiry(id, name, email, phone, event_type, event_date, guest_count, venue_preference, message) ==
    [table |-> "event_inquiries",
     id |-> id, name |-> name, email |-> email, phone |-> phone,
     event_type |-> event_type, event_date |-> event_date,
     guest_count |-> guest_count, venue_preference |-> venue_preference,
     message |-> message, status |-> "new"]

\* create_event_inquiry.  mail_ok: the notification e-mail is sent.
create_event_inquiry(data, now, us, rs, iqs, commit_ok, mail_ok) ==
    LET failed(steps) ==
            Traced(DatabaseError, us, rs, {}, <<>>, steps \o <<"rollback">>)
        invalid(message, steps) ==
            Traced(ValidationError(message), us, rs, {}, <<>>,
                   steps \o <<"reject">>)
        checks(n) == [i \in 1..n |-> "check"]
    IN
    IF Unreadable(data) THEN failed(<<>>)
    ELSE IF IsFalsy(data) THEN invalid("No data provided", <<>>)
    ELSE IF validate_required_fields(
               data, <<"name", "email", "phone", "event_type", "event_date",
                       "guest_count", "message">>) # <<>>
    THEN invalid("Missing required fields", checks(1))
    ELSE
    LET name == sanitize_string(data.f["name"], 100)
        email == sanitize_string(data.f["email"], 100)
        phone == sanitize_string(data.f["phone"], 20)
        message == sanitize_string(data.f["message"], 2000)
        event_type == sanitize_string(data.f["event_type"], 50)
        venue_preference == sanitize_string(data.f["venue_preference"], 50)
    IN
    IF ~validate_email(email) THEN invalid("Invalid email format", checks(2))
    ELSE IF ~validate_phone(phone)
    THEN invalid("Invalid phone format. Use format: +254700000000", checks(3))
    ELSE IF ~validate_event_type(event_type)
    THEN invalid("Invalid event type. Must be: wedding, corporate, birthday, reunion, graduation, or other",
                 checks(4))
    ELSE IF ~validate_date_not_past(data.f["event_date"], now)
    THEN invalid("Event date must be today or in the future", checks(5))
    ELSE IF ~validate_guest_count(data.f["guest_count"], 500)
    THEN invalid("Guest count must be between 1 and 500", checks(6))
    ELSE IF Len(message) < 10
    THEN invalid("Message must be at least 10 characters long", checks(7))
    ELSE IF ~commit_ok THEN failed(checks(7) \o <<"add", "commit-failed">>)
    ELSE submitted(us, rs,
                  EventInquiry(Len(Rows(iqs, "event_inquiries")) + 1, name,
                               email, phone, event_type,
                               strptime(data.f["event_date"].s).day,
                               int(data.f["guest_count"]).n,
                               venue_preference,  \* "" stands for None
                               message),
                  checks(7), mail_ok)

(***************************************************************************)
(* app/__init__.py                                                         *)
(***************************************************************************)
\* health_check: {"status": "healthy", "service": "wima-backend"}
health_check(us, rs) ==
    Outcome(Response(200, "absent", "absent", "absent"), us, rs, {})

(***************************************************************************)
(* The view stage of a request: the guard decorator, then the handler it   *)
(* wraps.  `last` keeps the request and what came of it.                   *)
(***************************************************************************)
NoCred == [header |-> "absent", token |-> NoToken]

\* twin holds a second run of the same view from the same tables (login
\* only), for the properties that compare the answers to two requests.
NoTwin == [set |-> FALSE]

\* data is the body of the request, kept for the inquiry views; listed
\* holds the ids of the rooms in the answer
NoData == [kind |-> "none", f |-> EmptyObject]

Idle ==
    [op |-> "none", guard |-> "none", cred |-> NoCred, claims |-> None,
     response |-> Proceed, handler |-> FALSE, user |-> 0, steps |-> <<>>,
     twin |-> NoTwin, data |-> NoData, listed |-> <<>>]

\* f(*args, **kwargs) behind a guard: the handler runs only on Proceed.
\* claims is the payload get_current_user got from decode_token; steps are
\* the guard's verdict followed by the steps of the handler.
GuardedWith(op, guard, cred, g, out, data) ==
    /\ last' = [op |-> op, guard |-> guard, cred |-> cred,
                claims |-> IF cred.header = "bearer"
                           THEN decode_token(cred.token, clock) ELSE None,
                response |-> IF g.response = Proceed THEN out.response
                             ELSE g.response,
                handler |-> g.response = Proceed,
                user |-> g.user.id,
                steps |-> IF g.response = Proceed
                          THEN <<"guard">> \o out.steps
                          ELSE <<"guard-reject">>,
                twin |-> NoTwin, data |-> data,
                listed |-> IF g.response = Proceed THEN out.listed ELSE <<>>]
    /\ users' = IF g.response = Proceed THEN out.users ELSE users
    /\ rooms' = IF g.response = Proceed THEN out.rooms ELSE rooms
    /\ inquiries' = IF g.response = Proceed
                    THEN Store(inquiries, out.changed) \o out.added
                    ELSE inquiries
    /\ UNCHANGED <<clock, issued>>

\* the body of a request together with the room id of its path
WithRoomId(data, room_id) == [data EXCEPT !.f["room_id"] = JInt(room_id)]

\* a guarded view whose body is not kept
Guarded(op, guard, cred, g, out) == GuardedWith(op, guard, cred, g, out, NoData)

\* POST /api/auth/login
Login(data, commit_ok) ==
    LET out == login(data, clock, users, rooms, commit_ok) IN
    /\ last' = [Idle EXCEPT !.op = "login", !.response = out.response,
                            !.handler = TRUE, !.steps = out.steps,
                            !.data = data]
    /\ users' = out.users
    /\ \E keep \in SUBSET issued :
          /\ Cardinality(keep) < MaxTokens
          /\ issued' = IF out.tokens = {} THEN issued ELSE keep \cup out.tokens
    /\ UNCHANGED <<rooms, inquiries, clock>>

\* a view without a guard
Unguarded(op, out) ==
    /\ last' = [Idle EXCEPT !.op = op, !.response = out.response,
                            !.handler = TRUE, !.steps = out.steps]
    /\ users' = out.users
    /\ rooms' = out.rooms
    /\ inquiries' = inquiries \o out.added
    /\ UNCHANGED <<clock, issued>>

\* POST /api/inquiries
CreateInquiry(data, commit_ok, db_ok, mail_ok) ==
    LET out == create_inquiry(data, clock, users, rooms, inquiries, commit_ok,
                              db_ok, mail_ok)
    IN
    /\ last' = [Idle EXCEPT !.op = "create_inquiry", !.response = out.response,
                            !.handler = TRUE, !.steps = out.steps,
                            !.data = data]
    /\ users' = out.users
    /\ rooms' = out.rooms
    /\ inquiries' = inquiries \o out.added
    /\ UNCHANGED <<clock, issued>>

\* POST /api/admin/rooms
CreateRoom(cred, data, commit_ok) ==
    LET g == require_manager(cred, clock, users) IN
    GuardedWith("create_room", "manager", cred, g,
                create_room(g.user, data, clock, users, rooms, commit_ok), data)

\* POST /api/admin/rooms/<room_id>/toggle-featured
ToggleRoomFeatured(cred, room_id, commit_ok) ==
    LET g == require_auth(cred, clock, users) IN
    Guarded("toggle_room_featured", "auth", cred, g,
            toggle_room_featured(g.user, room_id, clock, users, rooms,
                                 commit_ok))

\* PATCH /api/admin/inquiries/<inquiry_id>
UpdateInquiry(cred, inquiry_id, data, commit_ok) ==
    LET g == require_auth(cred, clock, users) IN
    Guarded("update_inquiry", "auth", cred, g,
            update_inquiry(g.user, inquiry_id, data, clock, users, rooms,
                           inquiries, commit_ok))

\* PATCH /api/admin/event-inquiries/<inquiry_id>
UpdateEventInquiry(cred, inquiry_id, data, commit_ok) ==
    LET g == require_auth(cred, clock, users) IN
    Guarded("update_event_inquiry", "auth", cred, g,
            update_event_inquiry(g.user, inquiry_id, data, clock, users, rooms,
                                 inquiries, commit_ok))

\* POST /api/admin/inquiries/<inquiry_id>/mark-read
MarkInquiryRead(cred, inquiry_id, commit_ok) ==
    LET g == require_auth(cred, clock, users) IN
    Guarded("mark_inquiry_read", "auth", cred, g,
            mark_inquiry_read(g.user, inquiry_id, users, rooms, inquiries,
                              commit_ok))

\* POST /api/admin/inquiries/<inquiry_id>/mark-replied
MarkInquiryReplied(cred, inquiry_id, commit_ok) ==
    LET g == require_auth(cred, clock, users) IN
    Guarded("mark_inquiry_replied", "auth", cred, g,
            mark_inquiry_replied(g.user, inquiry_id, users, rooms, inquiries,
                                 commit_ok))

\* DELETE /api/admin/inquiries/<inquiry_id>
DeleteInquiry(cred, inquiry_id, commit_ok) ==
    LET g == require_manager(cred, clock, users) IN
    Guarded("delete_inquiry", "manager", cred, g,
            delete_inquiry(g.user, inquiry_id, users, rooms, inquiries,
                           commit_ok))

\* DELETE /api/admin/event-inquiries/<inquiry_id>
DeleteEventInquiry(cred, inquiry_id, commit_ok) ==
    LET g == require_manager(cred, clock, users) IN
    Guarded("delete_event_inquiry", "manager", cred, g,
            delete_event_inquiry(g.user, inquiry_id, users, rooms, inquiries,
                                 commit_ok))

\* GET /api/admin/rooms
AdminGetAllRooms(cred, include_inactive, room_type, query_ok) ==
    LET g == require_auth(cred, clock, users) IN
    GuardedWith("admin_get_all_rooms", "auth", cred, g,
                admin_get_all_rooms(g.user, include_inactive, room_type, users,
                                    rooms, query_ok),
                Object([EmptyObject EXCEPT !["is_active"] = include_inactive,
                                           !["type"] = room_type]))

\* GET /api/admin/rooms/<room_id>
AdminGetRoom(cred, room_id) ==
    LET g == require_auth(cred, clock, users) IN
    Guarded("admin_get_room", "auth", cred, g,
            admin_get_room(g.user, room_id, users, rooms))

\* a public view that returns rooms; data keeps its path parameter
Public(op, out, data) ==
    /\ last' = [Idle EXCEPT !.op = op, !.response = out.response,
                            !.handler = TRUE, !.steps = out.steps,
                            !.data = data, !.listed = out.listed]
    /\ UNCHANGED <<users, rooms, inquiries, clock, issued>>

\* GET /api/rooms
GetRooms(query_ok) == Public("get_rooms", get_rooms(users, rooms, query_ok), NoData)

\* GET /api/rooms/featured
GetFeaturedRooms(query_ok) ==
    Public("get_featured_rooms", get_featured_rooms(users, rooms, query_ok),
           NoData)

\* GET /api/rooms/<slug>
GetRoomBySlug(slug, query_ok) ==
    Public("get_room_by_slug", get_room_by_slug(slug, users, rooms, query_ok),
           Object([EmptyObject EXCEPT !["slug"] = JStr(slug)]))

\* GET /api/rooms/type/<room_type>
GetRoomsByType(room_type, query_ok) ==
    Public("get_rooms_by_type",
           get_rooms_by_type(room_type, users, rooms, query_ok),
           Object([EmptyObject EXCEPT !["type"] = JStr(room_type)]))

\* POST /api/inquiries/event
CreateEventInquiry(data, commit_ok, mail_ok) ==
    LET out == create_event_inquiry(data, clock, users, rooms, inquiries,
                                    commit_ok, mail_ok)
    IN
    /\ last' = [Idle EXCEPT !.op = "create_event_inquiry",
                            !.response = out.response, !.handler = TRUE,
                            !.steps = out.steps, !.data = data]
    /\ users' = out.users
    /\ rooms' = out.rooms
    /\ inquiries' = inquiries \o out.added
    /\ UNCHANGED <<clock, issued>>

\* GET /api/health
HealthCheck == Unguarded("health_check", health_check(users, rooms))

\* POST /api/auth/change-password
ChangePassword(cred, data, commit_ok) ==
    LET g == require_auth(cred, clock, users) IN
    GuardedWith("change_password", "auth", cred, g,
                change_password(g.user, data, clock, users, rooms, commit_ok),
                data)

\* POST /api/auth/users
CreateUser(cred, data, commit_ok) ==
    LET g == require_admin(cred, clock, users) IN
    GuardedWith("create_user", "admin", cred, g,
                create_user(g.user, data, clock, users, rooms, commit_ok), data)

\* PATCH /api/admin/rooms/<room_id>
UpdateRoom(cred, room_id, data, commit_ok) ==
    LET g == require_manager(cred, clock, users) IN
    GuardedWith("update_room", "manager", cred, g,
                update_room(g.user, room_id, data, clock, users, rooms,
                            commit_ok),
                WithRoomId(data, room_id))

\* GET /api/auth/me
GetCurrentUserInfo(cred) ==
    LET g == require_auth(cred, clock, users) IN
    Guarded("get_current_user_info", "auth", cred, g,
            get_current_user_info(g.user, users, rooms))

\* GET /api/auth/users
ListUsers(cred, query_ok) ==
    LET g == require_admin(cred, clock, users) IN
    Guarded("list_users", "admin", cred, g,
            list_users(g.user, users, rooms, query_ok))

\* DELETE /api/admin/rooms/<room_id>
DeleteRoom(cred, room_id, commit_ok) ==
    LET g == require_admin(cred, clock, users) IN
    Guarded("delete_room", "admin", cred, g,
            delete_room(g.user, room_id, clock, users, rooms, commit_ok))

\* POST /api/admin/rooms/<room_id>/activate
ActivateRoom(cred, room_id, commit_ok) ==
    LET g == require_manager(cred, clock, users) IN
    Guarded("activate_room", "manager", cred, g,
            activate_room(g.user, room_id, clock, users, rooms, commit_ok))

(***************************************************************************)
(* The environment: rows of the users table are updated outside the API    *)
(* (no route changes is_active or role), and time passes.                  *)
(***************************************************************************)
\* users.is_active
DbSetActive(id, active) ==
    /\ id \in 1..Len(users)
    /\ users[id].is_active # active
    /\ users' = [users EXCEPT ![id].is_active = active]
    /\ last' = Idle
    /\ UNCHANGED <<rooms, inquiries, clock, issued>>

\* rooms.is_active
DbSetRoomActive(id, active) ==
    /\ id \in 1..Len(rooms)
    /\ rooms[id].is_active # active
    /\ rooms' = [rooms EXCEPT ![id].is_active = active]
    /\ last' = Idle
    /\ UNCHANGED <<users, inquiries, clock, issued>>

\* users.role
DbSetRole(id, role) ==
    /\ id \in 1..Len(users)
    /\ users[id].role # role
    /\ users' = [users EXCEPT ![id].role = role]
    /\ last' = Idle
    /\ UNCHANGED <<rooms, inquiries, clock, issued>>

\* datetime.utcnow() moves on
TickAuth ==
    /\ clock + TickStepAuth <= MaxClockAuth
    /\ clock' = clock + TickStepAuth
    /\ last' = Idle
    /\ UNCHANGED <<users, rooms, inquiries, issued>>

(***************************************************************************)
(* app/utils/rate_limit.py: Limiter(key_func=get_remote_address,           *)
(* default_limits=["200 per day", "50 per hour"], storage_uri="memory://") *)
(* and the @limiter.limit decorators of the routes.  The limiter counts in *)
(* fixed windows: a key's window opens with its first hit and closes       *)
(* `per` minutes later; a hit increments the counter and is allowed when   *)
(* the counter does not exceed the amount.                                 *)
(***************************************************************************)
Addrs == {"10.0.0.1", "10.0.0.2"}

Limit(amount, per) == [amount |-> amount, per |-> per]

\* default_limits, in the order the limiter evaluates them (finer
\* granularity first)
default_limits == <<Limit(50, 60), Limit(200, 1440)>>

LoginLimit == Limit(5, 1)          \* "5 per minute"
InquiryLimit == Limit(10, 60)      \* "10 per hour"
ReadLimit == Limit(100, 60)        \* "100 per hour"

Limits == {Limit(50, 60), Limit(200, 1440), LoginLimit, InquiryLimit, ReadLimit}

DecoratedEndpoints ==
    {"login", "create_inquiry", "create_event_inquiry", "get_rooms",
     "get_featured_rooms", "get_room_by_slug", "get_rooms_by_type"}

Endpoints ==
    DecoratedEndpoints
    \cup {"get_current_user_info", "change_password", "create_user",
          "list_users", "get_dashboard_stats", "update_room", "delete_room",
          "activate_room", "health_check"}

decorated_limit(endpoint) ==
    CASE endpoint = "login" -> <<LoginLimit>>
      [] endpoint \in {"create_inquiry", "create_event_inquiry"}
         -> <<InquiryLimit>>
      [] OTHER -> <<ReadLimit>>

route_limits_additive(endpoint) ==
    IF endpoint \in DecoratedEndpoints
    THEN decorated_limit(endpoint) \o default_limits
    ELSE default_limits

\* the limits that apply to a route: those of its @limiter.limit decorator
\* when it has one (a decorated limit overrides the defaults), the
\* default_limits otherwise
route_limits(endpoint) ==
    IF endpoint \in DecoratedEndpoints THEN decorated_limit(endpoint)
    ELSE default_limits

get_remote_address_shared(addr) == "10.0.0.1"

\* key_func: get_remote_address
get_remote_address(addr) == addr

\* the storage key of a limit: client key, route and limit
key_for(addr, endpoint, limit) == <<get_remote_address(addr), endpoint, limit>>

Keys ==
    {k \in Addrs \X Endpoints \X Limits :
        \/ \E i \in 1..Len(default_limits) : k[3] = default_limits[i]
        \/ k[2] \in DecoratedEndpoints /\ k[3] = decorated_limit(k[2])[1]}

\* MemoryStorage keeps two dictionaries, storage and expirations; a
\* dictionary is a function from the keys it holds
EmptyDict == [k \in {} |-> 0]

\* dict.get(key, 0)
At(f, key) == IF key \in DOMAIN f THEN f[key] ELSE 0

\* dict[key] = value
Put(f, key, value) ==
    [k \in DOMAIN f \cup {key} |-> IF k = key THEN value ELSE f[k]]

\* dict.pop(key, None)
Drop(f, key) == [k \in DOMAIN f \ {key} |-> f[k]]

\* MemoryStorage.get: an entry whose window has ended counts as 0
storage_get(st, ex, key, now) == IF At(ex, key) <= now THEN 0 ELSE At(st, key)

\* MemoryStorage.incr: atomic per key; the first hit of a window sets the
\* expiry
incr(st, ex, key, expiry, now) ==
    LET value == storage_get(st, ex, key, now) + 1 IN
    [storage |-> Put(st, key, value),
     expirations |-> IF value = 1 THEN Put(ex, key, now + expiry) ELSE ex,
     value |-> value]

\* FixedWindowRateLimiter.hit: incr(...) <= amount
hit(value, limit) == value <= limit.amount

\* the response to a request the limiter turns away: RateLimitExceeded is
\* an HTTP 429 exception for which register_error_handlers registers no
\* handler (RateLimitError is never raised), so the body is the default
\* HTML page
RateLimitExceeded ==
    [status |-> 429, json |-> FALSE, success |-> "absent",
     error |-> "absent", error_type |-> "absent"]

NoRequest == [busy |-> FALSE, addr |-> "", endpoint |-> "", idx |-> 0]

NoVerdict ==
    [addr |-> "", endpoint |-> "none", admitted |-> FALSE,
     response |-> Proceed, limit |-> Limit(0, 0), count |-> 0]

InitRateVars ==
    /\ storage = EmptyDict
    /\ expirations = EmptyDict
    /\ inflight = [slot \in {} |-> NoRequest]
    /\ rl = NoVerdict
    /\ passes = EmptyDict
    /\ hitsBy = EmptyDict

\* one hit of the request (addr, endpoint) on its idx-th limit: the new
\* storage, the verdict and the bookkeeping
OneHit(addr, endpoint, idx, st, ex, ps, hb, now) ==
    LET limit == route_limits(endpoint)[idx]
        key == key_for(addr, endpoint, limit)
        own == <<addr, endpoint, limit>>
        r == incr(st, ex, key, limit.per, now)
        allowed == hit(r.value, limit)
        fresh == r.value = 1
        ps0 == IF fresh THEN Drop(ps, key) ELSE ps
        hb0 == IF fresh THEN Drop(hb, key) ELSE hb
    IN  [storage |-> r.storage, expirations |-> r.expirations,
         allowed |-> allowed, limit |-> limit, count |-> r.value,
         passes |-> IF allowed THEN Put(ps0, key, At(ps0, key) + 1) ELSE ps0,
         hitsBy |-> Put(hb0, own, At(hb0, own) + 1)]

Verdict(addr, endpoint, h, done) ==
    [addr |-> addr, endpoint |-> endpoint, admitted |-> h.allowed /\ done,
     response |-> IF h.allowed THEN Proceed ELSE RateLimitExceeded,
     limit |-> h.limit, count |-> h.count]

(***************************************************************************)
(* The limiter stage, hit by hit: requests of several workers are inside   *)
(* the hook at once and their hits interleave.                             *)
(***************************************************************************)
\* a request enters the before-request hook
Arrive(slot, addr, endpoint) ==
    /\ ~inflight[slot].busy
    /\ inflight' = [inflight EXCEPT
                      ![slot] = [busy |-> TRUE, addr |-> addr,
                                 endpoint |-> endpoint, idx |-> 1]]
    /\ UNCHANGED <<storage, expirations, rl, passes, hitsBy>>
    /\ UNCHANGED authVars

\* the hook evaluates the next limit of a request.  A failed hit ends the
\* request with 429; after the last limit the request goes on to its view.
LimiterHit(slot) ==
    LET q == inflight[slot]
        h == OneHit(q.addr, q.endpoint, q.idx, storage, expirations, passes,
                    hitsBy, clock)
        done == q.idx = Len(route_limits(q.endpoint))
    IN  /\ q.busy
        /\ storage' = h.storage
        /\ expirations' = h.expirations
        /\ passes' = h.passes
        /\ hitsBy' = h.hitsBy
        /\ IF h.allowed /\ ~done
           THEN /\ inflight' = [inflight EXCEPT ![slot].idx = q.idx + 1]
                /\ UNCHANGED rl
           ELSE /\ inflight' = [inflight EXCEPT ![slot] = NoRequest]
                /\ rl' = Verdict(q.addr, q.endpoint, h, done)
        /\ UNCHANGED authVars

RECURSIVE check_request_limit(_, _, _, _, _, _, _, _)
\* the hook as a whole: the limits of the route one after the other, up to
\* the first hit that fails
check_request_limit(addr, endpoint, idx, st, ex, ps, hb, now) ==
    LET h == OneHit(addr, endpoint, idx, st, ex, ps, hb, now) IN
    IF h.allowed /\ idx < Len(route_limits(endpoint))
    THEN check_request_limit(addr, endpoint, idx + 1, h.storage,
                             h.expirations, h.passes, h.hitsBy, now)
    ELSE h

\* a request served by one worker from the hook to the response: the view
\* runs only when the limiter has admitted the request
Limited(addr, endpoint, guard, cred, View) ==
    LET h == check_request_limit(addr, endpoint, 1, storage, expirations,
                                 passes, hitsBy, clock)
    IN  /\ storage' = h.storage
        /\ expirations' = h.expirations
        /\ passes' = h.passes
        /\ hitsBy' = h.hitsBy
        /\ rl' = Verdict(addr, endpoint, h, TRUE)
        /\ UNCHANGED inflight
        /\ IF h.allowed THEN View
           ELSE /\ last' = [Idle EXCEPT !.op = endpoint, !.guard = guard,
                                        !.cred = cred,
                                        !.response = RateLimitExceeded,
                                        !.steps = <<"limiter-reject">>]
                /\ UNCHANGED <<users, rooms, inquiries, clock, issued>>

\* storage entries whose window has ended (MemoryStorage's expiry timer)
Expire(f, ex, now) == [k \in {x \in DOMAIN f : At(ex, x) > now} |-> f[k]]

\* a minute passes
TickRate(max) ==
    /\ clock + 1 <= max
    /\ clock' = clock + 1
    /\ storage' = Expire(storage, expirations, clock + 1)
    /\ passes' = Expire(passes, expirations, clock + 1)
    /\ hitsBy' = Expire(hitsBy, expirations, clock + 1)
    /\ expirations' = Expire(expirations, expirations, clock + 1)
    /\ rl' = NoVerdict
    /\ UNCHANGED <<inflight, users, rooms, inquiries, issued, last>>

(***************************************************************************)
(* Initial state: the admin of seed_admin.py, one more principal created   *)
(* through create_user, and a room of seed_data.py.                        *)
(***************************************************************************)
SeedAdmin ==
    [id |-> 1, email |-> "admin@wimaserenity.com",
     password_hash |-> set_password("WimaAdmin2026!"),
     name |-> "WIMA Admin", role |-> "admin",
     is_active |-> TRUE, last_login |-> -1]

SecondUser(role) ==
    [id |-> 2, email |-> "staff@wimaserenity.com",
     password_hash |-> set_password("staffpass1"), name |-> "Front Desk",
     role |-> role,
     is_active |-> TRUE, last_login |-> -1]

SeedRoom ==
    [name |-> "Deluxe Room 1", slug |-> "deluxe-room-1", type |-> "deluxe",
     description |-> "Comfortable deluxe room", capacity |-> 2,
     price_per_night |-> 5000, breakfast_included |-> TRUE,
     amenities |-> <<"WiFi">>, images |-> <<"/images/rooms/deluxe-1-main.jpg">>,
     is_featured |-> TRUE, is_active |-> TRUE]

InitAuth ==
    /\ users \in { <<SeedAdmin, SecondUser(r)>> : r \in ROLES }
    /\ rooms = <<SeedRoom>>
    /\ inquiries = <<>>
    /\ clock = 0
    /\ issued = {}
    /\ last = Idle
    /\ InitRateVars

LoginBodies ==
    { Malformed, Object(EmptyObject) }
    \cup
    { Object([EmptyObject EXCEPT !["email"] = e, !["password"] = p]) :
        e \in {JAbsent, JStr(" staff@wimaserenity.com "),
               JStr("nobody@example.com"), JStr("not-an-email")},
        p \in {JAbsent, JStr("WimaAdmin2026!"), JStr("staffpass1"),
               JInt(12345678)} }

RoomIds == 1..(Len(rooms) + 1)

NextAuth ==
    \/ \E data \in LoginBodies, ok \in BOOLEAN :
          Login(data, ok) /\ UNCHANGED rateVars
    \/ \E cred \in Credentials :
          GetCurrentUserInfo(cred) /\ UNCHANGED rateVars
    \/ \E cred \in Credentials, ok \in BOOLEAN :
          ListUsers(cred, ok) /\ UNCHANGED rateVars
    \/ \E cred \in Credentials, id \in RoomIds, ok \in BOOLEAN :
          ActivateRoom(cred, id, ok) /\ UNCHANGED rateVars
    \/ \E id \in 1..Len(users), b \in BOOLEAN :
          DbSetActive(id, b) /\ UNCHANGED rateVars
    \/ \E id \in 1..Len(users), r \in ROLES :
          DbSetRole(id, r) /\ UNCHANGED rateVars
    \/ TickAuth /\ UNCHANGED rateVars

SpecAuth == InitAuth /\ [][NextAuth]_vars

(***************************************************************************)
(* Properties of the guards and the token service (SpecAuth).              *)
(* `last` is reset by every step of the environment, so in a state where   *)
(* last.guard # "none" the tables and the clock are those the request saw. *)
(***************************************************************************)
Rank(role) == CASE role = "staff" -> 1 [] role = "manager" -> 2
                [] role = "admin" -> 3 [] OTHER -> 0

MinRank(guard) == CASE guard = "auth" -> 1 [] guard = "manager" -> 2
                    [] guard = "admin" -> 3 [] OTHER -> 0

\* the token of the last request carries a signature made by the server
CorrectlySigned ==
    /\ last.cred.header = "bearer"
    /\ last.cred.token.wellformed
    /\ last.cred.token.sig = last.cred.token.payload

Unexpired == clock < last.cred.token.payload.exp

\* the row the token of the last request names
Principal == User_get(users, last.cred.token.payload.user_id)

\* the last request carried a valid token of an existing, active principal
Authenticated ==
    /\ CorrectlySigned /\ Unexpired
    /\ Principal.id # 0 /\ Principal.is_active

\* C1: a request carrying a correctly signed, unexpired token whose
\* principal is inactive when the request is served is answered 401
\* unauthorized by each of the three guards and never reaches the handler.
C1_DeactivatedPrincipalRejected ==
    ( /\ last.guard \in {"auth", "manager", "admin"}
      /\ CorrectlySigned /\ Unexpired
      /\ Principal.id # 0 /\ ~Principal.is_active )
    => (last.response = Unauthorized /\ ~last.handler)

\* a token issued by login to a principal who has been deactivated since
C1_Witness ==
    /\ last.guard = "admin"
    /\ \E t \in issued : last.cred = Bearer(t)
    /\ Unexpired
    /\ Principal.role = "admin" /\ ~Principal.is_active
    /\ last.response.status = 401

\* C2: when the stored role of the principal differs from the role in the
\* token, the guard lets the request through exactly when the stored role
\* is at or above the route's minimum.
C2_CurrentRoleDecides ==
    ( /\ last.guard \in {"auth", "manager", "admin"}
      /\ Authenticated
      /\ last.cred.token.payload.role # Principal.role )
    => ( /\ last.handler <=> Rank(Principal.role) >= MinRank(last.guard)
         /\ ~last.handler => last.response.status = 403 )

\* a token issued to an admin who has been demoted to staff since
C2_Witness ==
    /\ last.guard = "admin"
    /\ Authenticated
    /\ last.cred.token.payload.role = "admin"
    /\ Principal.role = "staff"
    /\ last.response.status = 403

\* C3: an authenticated active principal reaches the handler behind a guard
\* if and only if the rank of their role is at least the guard's minimum
\* (staff < manager < admin); otherwise the answer is 403 forbidden.
C3_GuardIffRank ==
    (last.guard \in {"auth", "manager", "admin"} /\ Authenticated)
    => ( /\ last.handler <=> Rank(Principal.role) >= MinRank(last.guard)
         /\ last.handler => last.user = Principal.id
         /\ ~last.handler => ( /\ last.response.status = 403
                               /\ last.response.error_type = "forbidden" ) )

\* staff is turned away by the manager guard
C3_Witness ==
    /\ last.guard = "manager"
    /\ Authenticated
    /\ Principal.role = "staff"
    /\ last.response.status = 403

\* C5: a token lives for 24 hours from its issue: decode_token returns its
\* payload at every time before iat + 24 h and None from its expiry on; a
\* token with a foreign signature or one that is no JWT yields None at all
\* times; a rejection carries no claims.
C5_TokenLifetime ==
    /\ \A t \in issued : t.payload.exp = t.payload.iat + 24 * 60
    /\ (last.guard \in {"auth", "manager", "admin"}
        /\ last.cred.header = "bearer")
       => ( /\ (CorrectlySigned
                /\ clock < last.cred.token.payload.iat + 24 * 60)
               => last.claims = [ok |-> TRUE,
                                 claims |-> last.cred.token.payload]
            /\ (CorrectlySigned /\ clock >= last.cred.token.payload.exp)
               => (last.claims = None /\ last.response = Unauthorized)
            /\ ~CorrectlySigned
               => (last.claims = None /\ last.response = Unauthorized)
            /\ ~last.claims.ok => last.claims.claims = NoPayload )

\* a correctly signed token presented at or after its expiry
C5_Witness ==
    /\ last.guard = "auth"
    /\ CorrectlySigned
    /\ clock >= last.cred.token.payload.exp
    /\ Principal.is_active
    /\ last.response.status = 401

(***************************************************************************)
(* SpecRate: the limiter stage of the tightly limited routes, two clients, *)
(* the minute windows rolling over.                                        *)
(***************************************************************************)
InitRate ==
    /\ users = <<SeedAdmin, SecondUser("staff")>>
    /\ rooms = <<SeedRoom>>
    /\ inquiries = <<>>
    /\ clock = 0
    /\ issued = {}
    /\ last = Idle
    /\ storage = EmptyDict
    /\ expirations = EmptyDict
    /\ inflight = [slot \in 1..MaxInflight |-> NoRequest]
    /\ rl = NoVerdict
    /\ passes = EmptyDict
    /\ hitsBy = EmptyDict

TrafficRate ==
    {<<"10.0.0.1", "login">>, <<"10.0.0.2", "login">>}

\* hits of a client on a route in the current window of the route's first
\* limit
Sent(addr, endpoint) ==
    storage_get(storage, expirations,
                <<addr, endpoint, route_limits(endpoint)[1]>>, clock)

NextRate ==
    \/ \E slot \in 1..MaxInflight, c \in TrafficRate :
          /\ Sent(c[1], c[2]) < route_limits(c[2])[1].amount + MaxOver
          /\ Arrive(slot, c[1], c[2])
    \/ \E slot \in 1..MaxInflight : LimiterHit(slot)
    \/ TickRate(MaxClockRate)

SpecRate == InitRate /\ [][NextRate]_vars

(***************************************************************************)
(* SpecBulk: the limiter stage of a read route and of a route without a    *)
(* decorator, one client sending many requests within one hour.           *)
(***************************************************************************)
SentBulk ==
    Sent("10.0.0.1", "get_rooms") + Sent("10.0.0.1", "get_dashboard_stats")

NextBulk ==
    \/ \E slot \in 1..MaxInflight :
          SentBulk < MaxBulk /\ Arrive(slot, "10.0.0.1", "get_rooms")
    \/ \E slot \in 1..MaxInflight :
          SentBulk < MaxBulk /\ Arrive(slot, "10.0.0.1", "get_dashboard_stats")
    \/ \E slot \in 1..MaxInflight : LimiterHit(slot)

SpecBulk == InitRate /\ [][NextBulk]_vars

(***************************************************************************)
(* SpecPipe: whole requests of one client, from the limiter's hook to the  *)
(* response.  The client either has sent nothing in the current windows or *)
(* has used up its allowance on every route with requests that changed no  *)
(* table; it may hold a token that login issued when the clock was 0, and  *)
(* the clock is 0 or a day later.                                          *)
(***************************************************************************)
DoubleRoom ==
    [name |-> "Double Room", slug |-> "double-room", type |-> "double",
     description |-> "Spacious double room", capacity |-> 2,
     price_per_night |-> 6000, breakfast_included |-> TRUE,
     amenities |-> <<"WiFi">>, images |-> <<"/images/rooms/double-main.jpg">>,
     is_featured |-> TRUE, is_active |-> TRUE]

Client == "10.0.0.1"

PipeEndpoints ==
    <<"login", "create_inquiry", "health_check", "change_password",
      "create_user", "update_room", "delete_room">>

\* the hits that use up the client's allowance on a route: as many as the
\* tightest limit of the route allows, counted on every limit of the route
PriorHits(k) ==
    IF /\ k[1] = Client
       /\ \E j \in 1..Len(PipeEndpoints) : PipeEndpoints[j] = k[2]
       /\ \E i \in 1..Len(route_limits(k[2])) : route_limits(k[2])[i] = k[3]
    THEN route_limits(k[2])[1].amount ELSE 0

\* the users table when the second principal has the given role and state
\* and the principals in `logged` logged in when the clock was 0
PipeUsers(role, active, logged) ==
    LET us == <<SeedAdmin, [SecondUser(role) EXCEPT !.is_active = active]>>
    IN  [i \in 1..2 |-> IF i \in logged THEN [us[i] EXCEPT !.last_login = 0]
                        ELSE us[i]]

InitPipe ==
    /\ \E role \in {"staff", "manager"}, active \in BOOLEAN,
          logged \in {{}, {1}, {2}} :
          /\ users = PipeUsers(role, active, logged)
          /\ issued = { generate_token(SeedAdmin, 0) : i \in logged \cap {1} }
                      \cup { generate_token(SecondUser(role), 0) :
                                i \in logged \cap {2} }
    /\ rooms = <<SeedRoom, DoubleRoom>>
    /\ inquiries = <<>>
    /\ clock \in {0, expires_in * 60}
    /\ last = Idle
    /\ \E prior \in BOOLEAN :
          LET used == IF prior THEN {k \in Keys : PriorHits(k) > 0} ELSE {}
          IN  /\ storage = [k \in used |-> PriorHits(k)]
              /\ expirations = [k \in used |-> clock + k[3].per]
              /\ passes = [k \in used |-> PriorHits(k)]
              /\ hitsBy = [k \in used |-> PriorHits(k)]
    /\ inflight = [slot \in {} |-> NoRequest]
    /\ rl = NoVerdict

\* the requests the client has sent to a route in the current window,
\* beyond an allowance used up before
SentNow(endpoint) ==
    LET n == Sent(Client, endpoint)
        a == route_limits(endpoint)[1].amount
    IN  IF n >= a THEN n - a ELSE n

RECURSIVE SentPipe(_)
SentPipe(endpoints) ==
    IF endpoints = <<>> THEN 0
    ELSE SentNow(Head(endpoints)) + SentPipe(Tail(endpoints))

PipeLoginBodies ==
    { Malformed,
      Object([EmptyObject EXCEPT !["email"] = JStr(" staff@wimaserenity.com "),
                                 !["password"] = JStr("staffpass1")]),
      Object([EmptyObject EXCEPT !["email"] = JStr("Admin@WimaSerenity.com"),
                                 !["password"] = JStr("WimaAdmin2026!")]),
      Object([EmptyObject EXCEPT !["email"] = JStr("Admin@WimaSerenity.com"),
                                 !["password"] = JStr("staffpass1")]) }

ChangePasswordBodies ==
    { Malformed,
      Object([EmptyObject EXCEPT !["current_password"] = JStr("staffpass1"),
                                 !["new_password"] = JStr("newpass123")]),
      Object([EmptyObject EXCEPT !["current_password"] = JStr("WimaAdmin2026!"),
                                 !["new_password"] = JStr("short")]),
      Object([EmptyObject EXCEPT !["current_password"] = JStr("staffpass1"),
                                 !["new_password"] = JInt(12345678)]) }

CreateUserBodies ==
    { Object(EmptyObject),
      Object([EmptyObject EXCEPT !["email"] = JStr("manager@wimaserenity.com"),
                                 !["password"] = JStr("managerpw1"),
                                 !["name"] = JStr("Night Manager"),
                                 !["role"] = JStr("manager")]),
      Object([EmptyObject EXCEPT !["email"] = JStr(" staff@wimaserenity.com "),
                                 !["password"] = JStr("managerpw1"),
                                 !["name"] = JStr("Night Manager")]),
      Object([EmptyObject EXCEPT !["email"] = JStr("manager@wimaserenity.com"),
                                 !["password"] = JStr("managerpw1"),
                                 !["name"] = JStr("Night Manager"),
                                 !["role"] = JStr("owner")]) }

UpdateRoomBodies ==
    { Malformed, Object(EmptyObject),
      Object([EmptyObject EXCEPT !["name"] = JStr("Garden Suite"),
                                 !["slug"] = JStr("Garden Suite")]),
      Object([EmptyObject EXCEPT !["name"] = JStr("Garden Suite"),
                                 !["slug"] = JStr("Double Room")]),
      Object([EmptyObject EXCEPT !["name"] = JStr("Garden Suite"),
                                 !["type"] = JStr("penthouse")]),
      Object([EmptyObject EXCEPT !["type"] = JStr("family"),
                                 !["capacity"] = JStr("3"),
                                 !["is_featured"] = JBool(FALSE)]),
      Object([EmptyObject EXCEPT !["price_per_night"] = JInt(7000),
                                 !["amenities"] = JStr("WiFi")]) }

InquiryBase ==
    [EmptyObject EXCEPT !["name"] = JStr("John Doe"),
                        !["email"] = JStr("john@example.com"),
                        !["phone"] = JStr("+254700000000"),
                        !["inquiry_type"] = JStr("booking"),
                        !["message"] = JStr("I would like to book this room")]

InquiryBodies ==
    { Malformed, Object(InquiryBase),
      Object([InquiryBase EXCEPT !["phone"] = JStr("12345")]),
      Object([InquiryBase EXCEPT !["room_id"] = JInt(1),
                                 !["check_in"] = JStr("2026-12-01"),
                                 !["check_out"] = JStr("2026-12-03"),
                                 !["guests"] = JInt(2)]),
      Object([InquiryBase EXCEPT !["room_id"] = JInt(1),
                                 !["guests"] = JInt(11)]) }

\* path parameters: an existing room and a missing one
PipeRoomIds == {1, Len(rooms) + 1}

\* the client may send one more request
MaySend == SentPipe(PipeEndpoints) < MaxRequests

NextPipe ==
    \/ \E data \in PipeLoginBodies, ok \in BOOLEAN :
          MaySend /\ Limited(Client, "login", "none", NoCred, Login(data, ok))
    \/ \E data \in InquiryBodies, ok \in BOOLEAN, db \in BOOLEAN, mail \in BOOLEAN :
          /\ MaySend
          /\ Limited(Client, "create_inquiry", "none", NoCred,
                     CreateInquiry(data, ok, db, mail))
    \/ MaySend /\ Limited(Client, "health_check", "none", NoCred, HealthCheck)
    \/ \E cred \in Credentials, data \in ChangePasswordBodies, ok \in BOOLEAN :
          /\ MaySend
          /\ Limited(Client, "change_password", "auth", cred,
                     ChangePassword(cred, data, ok))
    \/ \E cred \in Credentials, data \in CreateUserBodies, ok \in BOOLEAN :
          /\ MaySend
          /\ Limited(Client, "create_user", "admin", cred,
                     CreateUser(cred, data, ok))
    \/ \E cred \in Credentials, id \in PipeRoomIds, data \in UpdateRoomBodies,
          ok \in BOOLEAN :
          /\ MaySend
          /\ Limited(Client, "update_room", "manager", cred,
                     UpdateRoom(cred, id, data, ok))
    \/ \E cred \in Credentials, id \in PipeRoomIds, ok \in BOOLEAN :
          /\ MaySend
          /\ Limited(Client, "delete_room", "admin", cred,
                     DeleteRoom(cred, id, ok))

SpecPipe == InitPipe /\ [][NextPipe]_vars

\* C6: of N+1 requests of one client in one window of a scope with ceiling
\* N the first N are admitted and the (N+1)th is answered 429 with
\* error_type rate_limit_exceeded; when the window has ended the counter is
\* back at zero.
C6_RejectionIsRateLimitExceeded ==
    /\ rl.endpoint # "none"
       => ( /\ rl.count <= rl.limit.amount => rl.admitted
            /\ rl.count > rl.limit.amount
               => ( /\ ~rl.admitted
                    /\ rl.response.status = 429
                    /\ rl.response.error_type = "rate_limit_exceeded" ) )
    /\ \A k \in Keys : At(expirations, k) <= clock => At(storage, k) = 0

\* C7 as claimed: a request to a route with its own ceiling is admitted only
\* while the client is within that ceiling and within 50 per hour and 200
\* per day as well (all requests of a run shorter than an hour fall in one
\* hour and one day).
C7_DefaultsAlsoApply ==
    \A a \in Addrs, e \in DecoratedEndpoints :
       /\ At(passes, <<a, e, decorated_limit(e)[1]>>) <= decorated_limit(e)[1].amount
       /\ clock < 60
          => ( /\ At(passes, <<a, e, decorated_limit(e)[1]>>) <= default_limits[1].amount
               /\ At(passes, <<a, e, decorated_limit(e)[1]>>) <= default_limits[2].amount )

\* C7 amended: a request to a route with its own ceiling is admitted exactly
\* when its hit is within that ceiling, and the default limits are never
\* counted for such a route; a request to a route without its own ceiling
\* is admitted only when its hits are within both default ceilings.
C7_DecoratedLimitReplacesDefaults ==
    /\ \A a \in Addrs, e \in DecoratedEndpoints, i \in 1..Len(default_limits) :
          /\ At(storage, <<a, e, default_limits[i]>>) = 0
          /\ At(hitsBy, <<a, e, default_limits[i]>>) = 0
    /\ (rl.endpoint \in DecoratedEndpoints)
       => ( /\ rl.limit = decorated_limit(rl.endpoint)[1]
            /\ rl.admitted <=> rl.count <= rl.limit.amount )
    /\ (rl.endpoint \in Endpoints \ DecoratedEndpoints)
       => ( /\ \E i \in 1..Len(default_limits) : rl.limit = default_limits[i]
            /\ rl.admitted => ( /\ rl.limit = default_limits[Len(default_limits)]
                                /\ rl.count <= rl.limit.amount )
            /\ ~rl.admitted => rl.count > rl.limit.amount )
    /\ \A a \in Addrs, e \in Endpoints \ DecoratedEndpoints,
          i \in 1..Len(default_limits) :
          At(passes, <<a, e, default_limits[i]>>) <= default_limits[i].amount

\* the 51st room read of one client within the hour is admitted
C7_Witness ==
    /\ rl.endpoint = "get_rooms"
    /\ rl.admitted
    /\ clock < 60
    /\ At(passes, <<rl.addr, "get_rooms", ReadLimit>>) > default_limits[1].amount

\* C8: whatever the interleaving, the hits the limiter allows a client in
\* one window of a scope never exceed the scope's ceiling, and every key
\* counts the hits of its own client and route only.
C8_CeilingPerClient ==
    \A k \in Keys :
       /\ At(passes, k) <= k[3].amount
       /\ At(storage, k) = At(hitsBy, k)

\* both clients have used up their login allowance in the same minute, one
\* of them was just turned away while the other is inside the hook
C8_Witness ==
    /\ At(passes, <<"10.0.0.1", "login", LoginLimit>>) = 5
    /\ At(passes, <<"10.0.0.2", "login", LoginLimit>>) = 5
    /\ rl.addr = "10.0.0.1" /\ ~rl.admitted /\ rl.count = 6
    /\ \E slot \in 1..MaxInflight :
          inflight[slot].busy /\ inflight[slot].addr = "10.0.0.2"

(***************************************************************************)
(* Properties of whole requests (SpecPipe).                                *)
(***************************************************************************)
\* the limiter admitted the request that `last` describes
Admitted == rl.endpoint = last.op /\ rl.admitted

ErrorTypes ==
    {"validation_error", "database_error", "not_found", "rate_limit_exceeded",
     "unauthorized", "forbidden", "bad_request", "method_not_allowed",
     "internal_error"}

\* C4: a request that reaches a guarded view without a valid credential
\* (no header, a malformed, tampered or expired token, a token of an unknown
\* or inactive principal) is answered 401 unauthorized and its handler does
\* not run, whatever its route, path parameter and body; a 403 answer is
\* forbidden and is given only to an active principal with a valid token
\* whose role is below the route's minimum.
C4_InvalidCredentialUnauthorized ==
    (last.guard \in {"auth", "manager", "admin"} /\ Admitted)
    => ( /\ ~Authenticated
            => (last.response = Unauthorized /\ ~last.handler)
         /\ last.response.status = 403
            => ( /\ Authenticated
                 /\ Rank(Principal.role) < MinRank(last.guard)
                 /\ last.response.error_type = "forbidden" ) )

\* a token that has expired, sent to the room update route
C4_Witness ==
    /\ last.op = "update_room" /\ Admitted
    /\ CorrectlySigned /\ ~Unexpired
    /\ last.response = Unauthorized

\* the routes whose handlers record their steps
StepOps == {"update_room", "create_inquiry", "create_user", "change_password"}

\* an element of steps at a position before / after position i
Before(steps, i, kinds) == \E j \in 1..(i - 1) : steps[j] \in kinds

After(steps, i, kinds) == \E j \in (i + 1)..Len(steps) : steps[j] \in kinds

\* C9 as claimed: within a request nothing is set on a record or added to
\* the session before the limiter has admitted the request, the guard has
\* passed, and every validation rule has been evaluated.
C9_NoFieldSetBeforeValidation ==
    (last.op \in StepOps)
    => \A i \in 1..Len(last.steps) :
          last.steps[i] \in {"assign", "add"}
          => ( /\ Admitted
               /\ last.guard # "none" => last.steps[1] = "guard"
               /\ ~After(last.steps, i, {"check", "reject"}) )

\* one request from the hook to the response
C9_Step ==
    LET steps == last'.steps
        admitted == rl'.endpoint = last'.op /\ rl'.admitted
        committed == \E i \in 1..Len(steps) : steps[i] = "commit"
    IN  (last'.op \in StepOps)
        => ( /\ ~admitted => steps = <<"limiter-reject">>
             /\ (admitted /\ last'.guard # "none")
                => (steps[1] = "guard" \/ steps = <<"guard-reject">>)
             /\ \A i \in 1..Len(steps) :
                   steps[i] = "commit"
                   => ( /\ ~Before(steps, i, {"reject", "rollback", "discard"})
                        /\ ~After(steps, i, {"check", "reject", "assign", "add"}) )
             /\ <<users, rooms, inquiries>>' # <<users, rooms, inquiries>>
                => ( /\ admitted /\ committed
                     /\ last'.response.success = "true" )
             /\ last'.response.success # "true" => ~committed )

\* C9 amended: within a request no change of a record is committed before
\* the limiter has admitted the request, the guard has passed and every
\* validation rule of the request has passed; a request that is turned away
\* at any of these stages leaves the tables as they were, also when fields
\* of the loaded record had already been set.
C9_NoChangeCommittedBeforeValidation == [][C9_Step]_vars

\* a room update whose name was set before its type was found invalid: the
\* answer is 400 and the room is as it was
C9_Witness ==
    /\ last.op = "update_room" /\ Admitted
    /\ \E i \in 1..Len(last.steps) :
          last.steps[i] = "assign" /\ After(last.steps, i, {"reject"})
    /\ last.response.status = 400
    /\ rooms = <<SeedRoom, DoubleRoom>>

\* C10: every response is a JSON object with a boolean success flag, and
\* every failure carries an error message and an error_type of the fixed
\* set.
C10_UniformResponses ==
    (last.op # "none")
    => ( /\ last.response.json
         /\ last.response.success \in {"true", "false"}
         /\ last.response.success = "false"
            => ( /\ last.response.error # "absent"
                 /\ last.response.error_type \in ErrorTypes ) )

(***************************************************************************)
(* Two logins against the same tables (SpecLogin).  LoginTwin runs the     *)
(* view on request a and, from the same tables and clock, on request b;    *)
(* last holds the answer to a, last.twin the answer to b and whether each  *)
(* run left the tables as they were and issued nothing.                    *)
(***************************************************************************)
LoginTwin(a, b, commit_ok) ==
    LET outA == login(a, clock, users, rooms, commit_ok)
        outB == login(b, clock, users, rooms, commit_ok)
    IN
    /\ last' = [Idle EXCEPT
                  !.op = "login", !.response = outA.response,
                  !.handler = TRUE, !.steps = outA.steps,
                  !.twin = [set |-> TRUE, a |-> a, b |-> b,
                            response |-> outB.response,
                            keptA |-> outA.users = users /\ outA.tokens = {},
                            keptB |-> outB.users = users /\ outB.tokens = {}]]
    /\ users' = outA.users
    /\ \E keep \in SUBSET issued :
          /\ Cardinality(keep) < MaxTokens
          /\ issued' = IF outA.tokens = {} THEN issued ELSE keep \cup outA.tokens
    /\ UNCHANGED <<rooms, inquiries, clock>>

InitLogin ==
    /\ \E r \in ROLES, active \in BOOLEAN :
          users = <<SeedAdmin, [SecondUser(r) EXCEPT !.is_active = active]>>
    /\ rooms = <<SeedRoom>>
    /\ inquiries = <<>>
    /\ clock = 0
    /\ issued = {}
    /\ last = Idle
    /\ InitRateVars

\* the requests that carry an email and a password
TwinBodies ==
    { d \in LoginBodies :
        validate_required_fields(d, <<"email", "password">>) = <<>> }

NextLogin ==
    \/ \E a \in TwinBodies, b \in TwinBodies, ok \in BOOLEAN :
          LoginTwin(a, b, ok) /\ UNCHANGED rateVars
    \/ \E data \in LoginBodies, ok \in BOOLEAN :
          Login(data, ok) /\ UNCHANGED rateVars

SpecLogin == InitLogin /\ [][NextLogin]_vars

\* the body carries an email and a password, and the email is well formed
WellFormedLogin(data) ==
    /\ data.kind = "object"
    /\ validate_required_fields(data, <<"email", "password">>) = <<>>
    /\ validate_email(lower(sanitize_string(data.f["email"], 100)))

\* the principal the body names (NoUser when there is none)
Named(data) == get_by_email(users, lower(sanitize_string(data.f["email"], 100)))

\* the body names no principal
UnknownEmail(data) == WellFormedLogin(data) /\ Named(data).id = 0

\* the body names a principal and carries a password that is not theirs
WrongPassword(data) ==
    /\ WellFormedLogin(data)
    /\ Named(data).id # 0
    /\ data.f["password"].t = "str"
    /\ ~check_password(Named(data), data.f["password"].s)

\* the body names a principal and carries their password
RightPassword(data) ==
    /\ WellFormedLogin(data)
    /\ Named(data).id # 0
    /\ data.f["password"].t = "str"
    /\ check_password(Named(data), data.f["password"].s)

InvalidCredentials(data) == UnknownEmail(data) \/ WrongPassword(data)

\* C12: a login with the right password of a deactivated principal gets the
\* same answer as a login with invalid credentials.
C12_DeactivatedLikeInvalidCredentials ==
    ( /\ last.twin.set
      /\ InvalidCredentials(last.twin.a)
      /\ RightPassword(last.twin.b) /\ ~Named(last.twin.b).is_active )
    => last.response = last.twin.response

(***************************************************************************)
(* The two inquiry submissions (SpecInquiry): the public forms are sent    *)
(* with guest counts around the ceiling and with room ids of an active     *)
(* room, a room that may be inactive, no room and 0; the commit and the    *)
(* notification mail may each fail, and rooms are switched on and off.     *)
(***************************************************************************)
MaxInquiries == 1

\* max_capacity of a room booking (create_inquiry)
booking_capacity == 10

InitInquiry ==
    /\ users = <<SeedAdmin, SecondUser("staff")>>
    /\ \E active \in BOOLEAN :
          rooms = <<SeedRoom, [DoubleRoom EXCEPT !.is_active = active]>>
    /\ inquiries = <<>>
    /\ clock = 0
    /\ issued = {}
    /\ last = Idle
    /\ InitRateVars

\* bookings with every guest count from 0 to one above the ceiling
GuestBodies ==
    { Object(InquiryBase) }
    \cup
    { Object([InquiryBase EXCEPT !["guests"] = JInt(n)]) :
        n \in 0..(booking_capacity + 1) }

\* bookings that name a room: 1 and 2 exist, 3 does not
RoomBodies ==
    { Object([InquiryBase EXCEPT !["room_id"] = r, !["guests"] = JInt(2)]) :
        r \in {JNull, JInt(0), JInt(1), JInt(2), JInt(3), JStr("abc")} }

\* bookings with one date, with both, and with values that are no dates
StayBodies ==
    { Object([InquiryBase EXCEPT !["check_in"] = i, !["check_out"] = o,
                                 !["guests"] = g]) :
        i \in {JAbsent, JStr(""), JStr("2020-01-01"), JStr("2026-11-03"),
               JStr("2026-12-01")},
        o \in {JAbsent, JInt(3), JStr("2026-11-03"), JStr("2026-12-01"),
               JStr("2026-12-03")},
        g \in {JAbsent, JStr("3")} }
    \cup
    { Object([InquiryBase EXCEPT !["guests"] = JStr("abc")]) }

EventBase ==
    [EmptyObject EXCEPT !["name"] = JStr("John Doe"),
                        !["email"] = JStr("john@example.com"),
                        !["phone"] = JStr("+254700000000"),
                        !["event_type"] = JStr("wedding"),
                        !["event_date"] = JStr("2026-12-01"),
                        !["guest_count"] = JInt(2),
                        !["message"] = JStr("I would like to book this room")]

EventBodies ==
    { Malformed, Object(EventBase),
      Object([EventBase EXCEPT !["event_date"] = JStr("2020-01-01")]),
      Object([EventBase EXCEPT !["guest_count"] = JInt(0)]) }

NextInquiry ==
    \/ \E data \in GuestBodies \cup RoomBodies \cup StayBodies \cup {Malformed},
          ok \in BOOLEAN, db \in BOOLEAN, mail \in BOOLEAN :
          /\ Len(inquiries) < MaxInquiries
          /\ CreateInquiry(data, ok, db, mail)
          /\ UNCHANGED rateVars
    \/ \E data \in EventBodies, ok \in BOOLEAN, mail \in BOOLEAN :
          /\ Len(inquiries) < MaxInquiries
          /\ CreateEventInquiry(data, ok, mail)
          /\ UNCHANGED rateVars
    \/ \E id \in 1..Len(rooms), b \in BOOLEAN :
          DbSetRoomActive(id, b) /\ UNCHANGED rateVars

SpecInquiry == InitInquiry /\ [][NextInquiry]_vars

\* the last request was a booking inquiry, valid but for its guest count
BookingWithGuests(n) ==
    /\ last.op = "create_inquiry"
    /\ last.data = Object([InquiryBase EXCEPT !["guests"] = JInt(n)])

\* the last request left the inquiry tables as they were / added one row
\* (steps end with the commit and the mail exactly when a row was added)
Persisted == "commit" \in {last.steps[i] : i \in 1..Len(last.steps)}

LastRow == inquiries[Len(inquiries)]

\* C13 (the accepted counts): a booking with a guest count from 1 to 10 is,
\* unless the database fails, answered 201 and stored with that count.
C13_GuestCountInRangeAccepted ==
    \A n \in 1..booking_capacity :
       BookingWithGuests(n)
       => \/ last.response = DatabaseError /\ ~Persisted
          \/ /\ last.response.status = 201 /\ Persisted
             /\ LastRow.guests = [set |-> TRUE, n |-> n]

\* C13: a booking with guest count 0 or 11 is answered with a validation
\* error and nothing is stored; one with a count from 1 to 10 is accepted
\* and stored with that count.
C13_GuestCountBounds ==
    /\ C13_GuestCountInRangeAccepted
    /\ \A n \in {0, booking_capacity + 1} :
          BookingWithGuests(n)
          => /\ last.response.status = 400
             /\ last.response.error_type = "validation_error"
             /\ ~Persisted

\* the last request named a room that does not exist or is inactive
NamesNoActiveRoom ==
    /\ last.op = "create_inquiry"
    /\ last.data \in RoomBodies
    /\ last.data.f["room_id"].t = "int"
    /\ \/ last.data.f["room_id"].n \notin 1..Len(rooms)
       \/ ~rooms[last.data.f["room_id"].n].is_active

\* C14: an inquiry naming a room id that does not exist or whose room is
\* inactive is answered 400 validation_error, never 5xx, and nothing is
\* stored, for every room id including 0.
C14_UnknownRoomIsValidationError ==
    NamesNoActiveRoom
    => /\ last.response.status = 400
       /\ last.response.error_type = "validation_error"
       /\ ~Persisted

\* the notification mail of the request failed
MailFailed == \E i \in 1..Len(last.steps) : last.steps[i] = "mail-failed"

C16_Step ==
    MailFailed'
    => /\ last'.op \in {"create_inquiry", "create_event_inquiry"}
       /\ last'.response.status = 201 /\ last'.response.success = "true"
       /\ Len(inquiries') = Len(inquiries) + 1
       /\ SubSeq(inquiries', 1, Len(inquiries)) = inquiries
       /\ LastRow'.table = IF last'.op = "create_inquiry" THEN "inquiries"
                           ELSE "event_inquiries"
       /\ \A i \in 1..Len(last'.steps) : last'.steps[i] # "rollback"

\* C16: when the notification mail of a committed inquiry or event inquiry
\* fails, the row stays in its table, nothing is rolled back and the
\* answer is 201 with success true.
C16_MailFailureIsNotAFailure == [][C16_Step]_vars

\* an event inquiry stored and answered 201 although its mail failed
C16_Witness ==
    /\ last.op = "create_event_inquiry" /\ MailFailed
    /\ last.response.status = 201
    /\ inquiries # <<>> /\ LastRow.table = "event_inquiries"

(***************************************************************************)
(* One request to each view that writes (SpecMutate), from tables that     *)
(* hold two principals, two rooms, a booking inquiry and an event inquiry. *)
(* The caller is anonymous or holds the token of either principal; the     *)
(* commit of each request may fail.                                        *)
(***************************************************************************)
SeedInquiry ==
    Inquiry(1, "John Doe", "john@example.com", "+254700000000", "booking",
            JNull, NoDate, NoDate, NoCount, "I would like to book this room")

SeedEventInquiry ==
    EventInquiry(1, "John Doe", "john@example.com", "+254700000000", "wedding",
                 28, 2, "", "I would like to book this room")

InitMutate ==
    /\ \E r \in ROLES, active \in BOOLEAN :
          /\ users = <<SeedAdmin, [SecondUser(r) EXCEPT !.is_active = active]>>
          /\ issued = {generate_token(SeedAdmin, 0),
                       generate_token(SecondUser(r), 0)}
    /\ \E active \in BOOLEAN :
          rooms = <<SeedRoom, [DoubleRoom EXCEPT !.is_active = active]>>
    /\ \E status \in {"new", "read"} :
          inquiries = <<[SeedInquiry EXCEPT !.status = status], SeedEventInquiry>>
    /\ clock = 0
    /\ last = Idle
    /\ InitRateVars

\* no credential, or the token of one of the two principals
MutateCreds == {NoCred} \cup {Bearer(t) : t \in issued}

CreateRoomBodies ==
    LET base == [EmptyObject EXCEPT !["name"] = JStr("Garden Suite"),
                                    !["slug"] = JStr("Garden Suite"),
                                    !["type"] = JStr("family"),
                                    !["description"] = JStr("Spacious double room"),
                                    !["capacity"] = JInt(2),
                                    !["price_per_night"] = JInt(7000)]
    IN  { Malformed, Object(EmptyObject), Object(base),
          Object([base EXCEPT !["slug"] = JStr("Double Room")]),
          Object([base EXCEPT !["capacity"] = JStr("abc")]),
          Object([base EXCEPT !["is_featured"] = JStr("yes")]) }

StatusBodies ==
    { Malformed, Object(EmptyObject),
      Object([EmptyObject EXCEPT !["status"] = JStr("replied")]),
      Object([EmptyObject EXCEPT !["status"] = JStr("done")]) }

\* a change-password body without the new password
NoNewPassword ==
    Object([EmptyObject EXCEPT !["current_password"] = JStr("staffpass1")])

\* one request per behaviour, or one more after a request to create a
\* principal
Fresh == last.op \in {"none", "create_user"}

NextMutate ==
    \/ \E data \in LoginBodies \cup PipeLoginBodies \cup {JsonArray},
          ok \in BOOLEAN :
          Fresh /\ Login(data, ok) /\ UNCHANGED rateVars
    \/ \E cred \in MutateCreds,
          data \in ChangePasswordBodies \cup {JsonArray, NoNewPassword},
          ok \in BOOLEAN :
          Fresh /\ ChangePassword(cred, data, ok) /\ UNCHANGED rateVars
    \/ \E cred \in MutateCreds, data \in CreateUserBodies \cup {JsonArray},
          ok \in BOOLEAN :
          Fresh /\ CreateUser(cred, data, ok) /\ UNCHANGED rateVars
    \/ \E cred \in MutateCreds, data \in CreateRoomBodies \cup {JsonArray},
          ok \in BOOLEAN :
          Fresh /\ CreateRoom(cred, data, ok) /\ UNCHANGED rateVars
    \/ \E cred \in MutateCreds, id \in PipeRoomIds, data \in UpdateRoomBodies,
          ok \in BOOLEAN :
          Fresh /\ UpdateRoom(cred, id, data, ok) /\ UNCHANGED rateVars
    \/ \E cred \in MutateCreds, id \in PipeRoomIds, ok \in BOOLEAN :
          Fresh /\ DeleteRoom(cred, id, ok) /\ UNCHANGED rateVars
    \/ \E cred \in MutateCreds, id \in PipeRoomIds, ok \in BOOLEAN :
          Fresh /\ ActivateRoom(cred, id, ok) /\ UNCHANGED rateVars
    \/ \E cred \in MutateCreds, id \in PipeRoomIds, ok \in BOOLEAN :
          Fresh /\ ToggleRoomFeatured(cred, id, ok) /\ UNCHANGED rateVars
    \/ \E cred \in MutateCreds, id \in 1..2, data \in StatusBodies,
          ok \in BOOLEAN :
          Fresh /\ UpdateInquiry(cred, id, data, ok) /\ UNCHANGED rateVars
    \/ \E cred \in MutateCreds, id \in 1..2, data \in StatusBodies,
          ok \in BOOLEAN :
          Fresh /\ UpdateEventInquiry(cred, id, data, ok) /\ UNCHANGED rateVars
    \/ \E data \in InquiryBodies \cup {JsonArray, Object(EmptyObject)},
          ok \in BOOLEAN, db \in BOOLEAN, mail \in BOOLEAN :
          Fresh /\ CreateInquiry(data, ok, db, mail) /\ UNCHANGED rateVars
    \/ \E data \in EventBodies \cup {JsonArray, Object(EmptyObject)},
          ok \in BOOLEAN, mail \in BOOLEAN :
          Fresh /\ CreateEventInquiry(data, ok, mail) /\ UNCHANGED rateVars

SpecMutate == InitMutate /\ [][NextMutate]_vars

\* the commit of the request raised
CommitFailed(steps) == \E i \in 1..Len(steps) : steps[i] = "commit-failed"

\* the handler rolled the session back after the commit had raised
RolledBack(steps) ==
    \E i \in 1..Len(steps) :
       steps[i] = "commit-failed" /\ After(steps, i, {"rollback"})

\* the tables after the request are the tables before it
TablesKept == <<users, rooms, inquiries>>' = <<users, rooms, inquiries>>

C15_Step == CommitFailed(last'.steps) => (RolledBack(last'.steps) /\ TablesKept)

\* C15: whenever the commit of a view that writes fails, the view rolls the
\* pending change back before it answers, and the tables after the request
\* are the tables before it.
C15_FailedCommitRolledBack == [][C15_Step]_vars

\* what does hold: the tables are kept by every view, and every view but
\* login rolls back itself
C15_TablesKept ==
    [][CommitFailed(last'.steps)
       => /\ TablesKept
          /\ last'.response.status = 500
          /\ last'.op # "login" => RolledBack(last'.steps)]_vars

\* the views C17 names, with the fields each requires and the fields it
\* reads as text
InputOps ==
    {"login", "change_password", "create_user", "create_room",
     "create_inquiry", "create_event_inquiry"}

RequiredFields(op) ==
    CASE op = "login" -> <<"email", "password">>
      [] op = "change_password" -> <<"current_password", "new_password">>
      [] op = "create_user" -> <<"email", "password", "name">>
      [] op = "create_room"
         -> <<"name", "slug", "type", "description", "capacity",
              "price_per_night">>
      [] op = "create_inquiry"
         -> <<"name", "email", "phone", "inquiry_type", "message">>
      [] op = "create_event_inquiry"
         -> <<"name", "email", "phone", "event_type", "event_date",
              "guest_count", "message">>
      [] OTHER -> <<>>

PasswordFields == {"password", "current_password", "new_password"}

\* the body is a caller input error: it does not parse, is not an object,
\* lacks a required field, or carries a password that is not a string
InputError(op, data) ==
    \/ data.kind # "object"
    \/ validate_required_fields(data, RequiredFields(op)) # <<>>
    \/ \E i \in 1..Len(RequiredFields(op)) :
          /\ RequiredFields(op)[i] \in PasswordFields
          /\ data.f[RequiredFields(op)[i]].t # "str"

\* C17: on login, change-password, create-user, create-room and the two
\* inquiry submissions a body that is a caller input error is answered
\* with a 4xx status, never 5xx.
C17_InputErrorIsClientError ==
    (last.op \in InputOps /\ last.handler /\ InputError(last.op, last.data))
    => last.response.status \in 400..499

\* what does hold: an object that lacks a required field is answered 400
\* validation_error by each of these views
C17_MissingFieldIsValidationError ==
    ( /\ last.op \in InputOps /\ last.handler
      /\ last.data.kind = "object"
      /\ validate_required_fields(last.data, RequiredFields(last.op)) # <<>> )
    => /\ last.response.status = 400
       /\ last.response.error_type = "validation_error"

\* every principal of before is a principal after, with its id and email
PrincipalsKept ==
    /\ Len(users') >= Len(users)
    /\ \A i \in 1..Len(users) :
          users'[i].id = users[i].id /\ users'[i].email = users[i].email

C18_Step ==
    /\ PrincipalsKept
    /\ Len(users') # Len(users)
       => /\ Len(users') = Len(users) + 1
          /\ last'.op = "create_user"
          /\ last'.user \in 1..Len(users)
          /\ users[last'.user].role = "admin"
          /\ users[last'.user].is_active

\* C18: no request removes a principal, and a request adds a principal
\* only when it is a create-user request of an active principal whose role
\* is admin; it then adds exactly one.
C18_PrincipalsOnlyByAdmin == [][C18_Step]_vars

\* a third principal, created by the admin
C18_Witness ==
    /\ last.op = "create_user" /\ last.response.status = 201
    /\ Len(users) = 3
    /\ users[last.user].role = "admin"

(***************************************************************************)
(* Requests served at the same time (SpecRace).  Each worker runs its view *)
(* in its own session: the view reads the tables, checks its rules and     *)
(* adds or changes its record (Begin...), and the commit comes later       *)
(* (Commit...), after other workers may have committed.  inflight holds    *)
(* the requests between the two.  At the commit the database enforces the  *)
(* unique indexes of users.email and rooms.slug; the view's `except        *)
(* Exception` answers a refused commit with rollback and 500.              *)
(***************************************************************************)
\* users.email is unique (a mutant without the index, then the index)
email_unique_off(us, email) == TRUE

email_unique(us, email) == \A i \in 1..Len(us) : us[i].email # email

\* rooms.slug is unique; room_id is the row being updated, 0 for an insert
slug_unique_off(rs, slug, room_id) == TRUE

slug_unique(rs, slug, room_id) ==
    \A i \in 1..Len(rs) : i = room_id \/ rs[i].slug # slug

RaceSlots == 1..MaxInflight

\* a request whose view has passed its checks and waits for its commit:
\* row is the record it adds or the record as it changed it, changed the
\* columns it changed
Pending(op, guard, cred, user, data, room_id, row, changed) ==
    [op |-> op, guard |-> guard, cred |-> cred, user |-> user, data |-> data,
     room_id |-> room_id, row |-> row, changed |-> changed]

\* the answer to a request whose commit was tried
Committed(p, ok, created, failure) ==
    [Idle EXCEPT !.op = p.op, !.guard = p.guard, !.cred = p.cred,
                 !.response = IF ok THEN created ELSE failure,
                 !.handler = TRUE, !.user = p.user,
                 !.data = IF p.op = "update_room"
                          THEN WithRoomId(p.data, p.room_id) ELSE p.data,
                 !.steps = IF ok THEN <<"guard", "check", "add", "commit">>
                           ELSE <<"guard", "check", "add", "commit-failed",
                                  "rollback">>]

\* create_user up to db.session.add(user)
BeginCreateUser(slot, cred, data) ==
    LET g == require_admin(cred, clock, users)
        out == create_user(g.user, data, clock, users, rooms, TRUE)
    IN
    /\ slot \notin DOMAIN inflight
    /\ IF g.response = Proceed /\ out.response.status = 201
       THEN /\ inflight' = Put(inflight, slot,
                               Pending("create_user", "admin", cred, g.user.id,
                                       data, 0, out.users[Len(out.users)], {}))
            /\ UNCHANGED <<users, rooms, inquiries, clock, issued, last>>
       ELSE /\ CreateUser(cred, data, TRUE)
            /\ UNCHANGED inflight

\* create_user: db.session.commit()
CommitCreateUser(slot, commit_ok) ==
    /\ slot \in DOMAIN inflight
    /\ inflight[slot].op = "create_user"
    /\ LET p == inflight[slot]
           ok == commit_ok /\ email_unique(users, p.row.email)
       IN  /\ users' = IF ok
                        THEN Append(users, [p.row EXCEPT !.id = Len(users) + 1])
                        ELSE users
           /\ last' = Committed(p, ok, Response(201, "true", "absent", "absent"),
                                Plain(500, "false", "Failed to create user"))
    /\ inflight' = Drop(inflight, slot)
    /\ UNCHANGED <<rooms, inquiries, clock, issued>>

\* create_room up to db.session.add(room)
BeginCreateRoom(slot, cred, data) ==
    LET g == require_manager(cred, clock, users)
        out == create_room(g.user, data, clock, users, rooms, TRUE)
    IN
    /\ slot \notin DOMAIN inflight
    /\ IF g.response = Proceed /\ out.response.status = 201
       THEN /\ inflight' = Put(inflight, slot,
                               Pending("create_room", "manager", cred,
                                       g.user.id, data, 0,
                                       out.rooms[Len(out.rooms)], {}))
            /\ UNCHANGED <<users, rooms, inquiries, clock, issued, last>>
       ELSE /\ CreateRoom(cred, data, TRUE)
            /\ UNCHANGED inflight

\* create_room: db.session.commit()
CommitCreateRoom(slot, commit_ok) ==
    /\ slot \in DOMAIN inflight
    /\ inflight[slot].op = "create_room"
    /\ LET p == inflight[slot]
           ok == commit_ok /\ slug_unique(rooms, p.row.slug, 0)
       IN  /\ rooms' = IF ok THEN Append(rooms, p.row) ELSE rooms
           /\ last' = Committed(p, ok, Response(201, "true", "absent", "absent"),
                                DatabaseError)
    /\ inflight' = Drop(inflight, slot)
    /\ UNCHANGED <<users, inquiries, clock, issued>>

\* update_room up to its commit: the session holds the room as the view
\* changed it
BeginUpdateRoom(slot, cred, room_id, data) ==
    LET g == require_manager(cred, clock, users)
        out == update_room(g.user, room_id, data, clock, users, rooms, TRUE)
    IN
    /\ slot \notin DOMAIN inflight
    /\ IF g.response = Proceed /\ out.response.status = 200
       THEN /\ inflight' =
                  Put(inflight, slot,
                      Pending("update_room", "manager", cred, g.user.id, data,
                              room_id, out.rooms[room_id],
                              { f \in DOMAIN rooms[room_id] :
                                  out.rooms[room_id][f] # rooms[room_id][f] }))
            /\ UNCHANGED <<users, rooms, inquiries, clock, issued, last>>
       ELSE /\ UpdateRoom(cred, room_id, data, TRUE)
            /\ UNCHANGED inflight

\* update_room: db.session.commit(), an UPDATE of the changed columns
CommitUpdateRoom(slot, commit_ok) ==
    /\ slot \in DOMAIN inflight
    /\ inflight[slot].op = "update_room"
    /\ LET p == inflight[slot]
           ok == /\ commit_ok
                 /\ "slug" \in p.changed
                    => slug_unique(rooms, p.row.slug, p.room_id)
       IN  /\ rooms' = IF ok
                        THEN [rooms EXCEPT ![p.room_id] =
                                [f \in DOMAIN @ |-> IF f \in p.changed
                                                     THEN p.row[f] ELSE @[f]]]
                        ELSE rooms
           /\ last' = Committed(p, ok, Ok(200), DatabaseError)
    /\ inflight' = Drop(inflight, slot)
    /\ UNCHANGED <<users, inquiries, clock, issued>>

InitRace ==
    /\ users = <<SeedAdmin, SecondUser("manager")>>
    /\ issued = {generate_token(SeedAdmin, 0),
                 generate_token(SecondUser("manager"), 0)}
    /\ rooms = <<SeedRoom, DoubleRoom>>
    /\ inquiries = <<>>
    /\ clock = 0
    /\ last = Idle
    /\ InitRateVars

\* the same new email in two letter cases, and an email that is taken
RaceUserBodies ==
    { Object([EmptyObject EXCEPT !["email"] = JStr(e),
                                 !["password"] = JStr("managerpw1"),
                                 !["name"] = JStr("Night Manager")]) :
        e \in {"manager@wimaserenity.com", "Manager@WimaSerenity.com",
               "nobody@example.com", " staff@wimaserenity.com "} }

\* a new slug in two spellings, and a slug that is taken
RaceRoomBodies ==
    { Object([EmptyObject EXCEPT !["name"] = JStr("Garden Suite"),
                                 !["slug"] = JStr(slug),
                                 !["type"] = JStr("family"),
                                 !["description"] = JStr("Spacious double room"),
                                 !["capacity"] = JInt(2),
                                 !["price_per_night"] = JInt(7000)]) :
        slug \in {"Garden Suite", "garden-suite", "Double Room"} }

\* slug updates: a new slug, the slug of room 1 and the slug of room 2
RaceSlugBodies ==
    { Object([EmptyObject EXCEPT !["slug"] = JStr(slug)]) :
        slug \in {"Garden Suite", "deluxe-room-1", "Double Room"} }

\* the callers of the concurrent requests hold the token of the admin
RaceCreds == {Bearer(generate_token(SeedAdmin, 0))}

\* the limiter takes no part
NoLimiter == UNCHANGED <<storage, expirations, rl, passes, hitsBy>>

NextRace ==
    \/ \E slot \in RaceSlots, cred \in MutateCreds, data \in RaceUserBodies :
          BeginCreateUser(slot, cred, data) /\ NoLimiter
    \/ \E slot \in RaceSlots, ok \in BOOLEAN :
          CommitCreateUser(slot, ok) /\ NoLimiter

SpecRace == InitRace /\ [][NextRace]_vars

NextSlug ==
    \/ \E slot \in RaceSlots, cred \in RaceCreds, data \in RaceRoomBodies :
          BeginCreateRoom(slot, cred, data) /\ NoLimiter
    \/ \E slot \in RaceSlots, ok \in BOOLEAN :
          CommitCreateRoom(slot, ok) /\ NoLimiter
    \/ \E slot \in RaceSlots, cred \in RaceCreds, id \in 1..2,
          data \in RaceSlugBodies :
          BeginUpdateRoom(slot, cred, id, data) /\ NoLimiter
    \/ \E slot \in RaceSlots, ok \in BOOLEAN :
          CommitUpdateRoom(slot, ok) /\ NoLimiter

SpecSlug == InitRace /\ [][NextSlug]_vars

\* no two principals have the same email in lower case
UniqueEmails ==
    \A i, j \in 1..Len(users) :
       i # j => lower(users[i].email) # lower(users[j].email)

\* the email a create-user body names, as the view normalises it
BodyEmail(data) == lower(sanitize_string(data.f["email"], 100))

C19_Step ==
    /\ UniqueEmails'
    /\ Len(users') <= Len(users) + 1
    /\ (last'.op = "create_user" /\ last' # last)
       => IF last'.response.status = 201
          THEN /\ users' = Append(users, users'[Len(users')])
               /\ users'[Len(users')].email = BodyEmail(last'.data)
               /\ \A i \in 1..Len(users) :
                     lower(users[i].email) # BodyEmail(last'.data)
          ELSE users' = users

\* C19: under every interleaving of create-user requests no two principals
\* have the same lower-cased email; a create-user request that succeeds
\* adds one principal whose email no principal had, and one that does not
\* succeed adds none, so of two requests for one email at most one
\* succeeds.
C19_UniqueEmailUnderRaces == [][C19_Step]_vars

\* two requests for one email passed the check together; the first was
\* committed and the second was refused at its commit and added nothing
C19_Witness ==
    /\ last.op = "create_user" /\ last.response.status = 500
    /\ CommitFailed(last.steps)
    /\ Len(users) = 3
    /\ users[3].email = BodyEmail(last.data)

\* no two rooms, active or not, have the same slug
UniqueSlugs ==
    \A i, j \in 1..Len(rooms) : i # j => rooms[i].slug # rooms[j].slug

\* the slug a body names, as the views normalise it
BodySlug(data) == replace_spaces(lower(sanitize_string(data.f["slug"], 100)))

\* the last request named a slug that another room held when it was
\* answered (room 0 stands for a room that is being created)
NamesTakenSlug(rs, room_id, data) ==
    \E i \in 1..Len(rs) : i # room_id /\ rs[i].slug = BodySlug(data)

\* the room the last update names
Updated(l) == l.data.f["room_id"].n

\* this step is the commit of the request in the slot
Answering(slot) == slot \in DOMAIN inflight /\ inflight' = Drop(inflight, slot)

\* a request is a slug update when its slug differs from the one of the
\* row it read; a request whose slug is the one it read writes no slug
C20_Step ==
    /\ UniqueSlugs'
    /\ (last' # last /\ last'.op = "create_room")
       => /\ NamesTakenSlug(rooms, 0, last'.data)
             => last'.response.status \in {400, 500}
          /\ last'.response.status # 201 => rooms' = rooms
    /\ (last' # last /\ last'.op = "update_room" /\ last'.handler)
       => /\ last'.response.status # 200 => rooms' = rooms
          /\ \A i \in 1..Len(rooms) :
                (rooms'[i].slug # rooms[i].slug)
                => i = Updated(last') /\ rooms'[i].slug = BodySlug(last'.data)
          /\ (inflight' = inflight
              /\ NamesTakenSlug(rooms, Updated(last'), last'.data))
             => last'.response.status = 400
    /\ \A slot \in RaceSlots :
          (Answering(slot) /\ inflight[slot].op = "update_room")
          => LET p == inflight[slot] IN
             /\ ("slug" \in p.changed
                 /\ NamesTakenSlug(rooms, p.room_id, p.data))
                => last'.response.status = 500 /\ rooms' = rooms
             /\ "slug" \notin p.changed
                => \/ last'.response.status = 200
                   \/ /\ last'.response.status = 500
                      /\ CommitFailed(last'.steps)

\* C20: under every sequence and interleaving of create-room and
\* update-room requests no two rooms share a slug; a create or a slug
\* update naming the slug of another room is refused and changes nothing;
\* an update of a room to the slug it has is answered 200 unless its
\* commit fails.
C20_UniqueSlugUnderRaces == [][C20_Step]_vars

\* two requests for one slug passed the check together; the first was
\* committed, the second was refused at its commit and changed nothing
C20_Witness ==
    /\ last.op \in {"create_room", "update_room"}
    /\ last.response.status = 500 /\ CommitFailed(last.steps)
    /\ \E i \in 1..Len(rooms) : rooms[i].slug = BodySlug(last.data)
    /\ rooms[1].slug # "deluxe-room-1" \/ Len(rooms) = 3

(***************************************************************************)
(* Rooms under sequences of requests: any number of requests to the views  *)
(* that write or read rooms, by an anonymous caller, the admin or a second *)
(* principal of any role, on two seeded rooms and a booking inquiry that   *)
(* names the first of them.                                                *)
(***************************************************************************)
\* the rooms table holds at most this many rows
MaxRooms == 3

BookedInquiry == [SeedInquiry EXCEPT !.room_id = JInt(1)]

InitRooms ==
    /\ \E r \in ROLES :
          /\ users = <<SeedAdmin, SecondUser(r)>>
          /\ issued = {generate_token(SeedAdmin, 0),
                       generate_token(SecondUser(r), 0)}
    /\ rooms = <<SeedRoom, DoubleRoom>>
    /\ inquiries = <<BookedInquiry>>
    /\ clock = 0
    /\ last = Idle
    /\ InitRateVars

RoomsCreateBodies ==
    { b \in CreateRoomBodies :
        /\ b.kind = "object" /\ Has(b, "name")
        /\ b.f["capacity"].t = "int" /\ ~Has(b, "is_featured") }

RoomsUpdateBodies ==
    { Object([EmptyObject EXCEPT !["is_active"] = JBool(FALSE)]),
      Object([EmptyObject EXCEPT !["is_active"] = JBool(TRUE),
                                 !["is_featured"] = JBool(TRUE)]),
      Object([EmptyObject EXCEPT !["is_active"] = JBool(FALSE),
                                 !["type"] = JStr("penthouse")]) }

RoomSlugs == {"deluxe-room-1", "double-room", "   "}

RoomTypes == {"deluxe", "family", "penthouse"}

NextRooms ==
    \/ \E cred \in MutateCreds, data \in RoomsCreateBodies, ok \in BOOLEAN :
          /\ Len(rooms) < MaxRooms
          /\ CreateRoom(cred, data, ok) /\ UNCHANGED rateVars
    \/ \E cred \in MutateCreds, id \in PipeRoomIds, data \in RoomsUpdateBodies,
          ok \in BOOLEAN :
          UpdateRoom(cred, id, data, ok) /\ UNCHANGED rateVars
    \/ \E cred \in MutateCreds, id \in PipeRoomIds, ok \in BOOLEAN :
          DeleteRoom(cred, id, ok) /\ UNCHANGED rateVars
    \/ \E cred \in MutateCreds, id \in PipeRoomIds, ok \in BOOLEAN :
          ActivateRoom(cred, id, ok) /\ UNCHANGED rateVars
    \/ \E cred \in MutateCreds, id \in PipeRoomIds, ok \in BOOLEAN :
          ToggleRoomFeatured(cred, id, ok) /\ UNCHANGED rateVars
    \/ \E cred \in MutateCreds, ok \in BOOLEAN :
          DeleteInquiry(cred, 1, ok) /\ UNCHANGED rateVars
    \/ \E cred \in MutateCreds, inactive \in {JAbsent, JStr("false")},
          type \in {JAbsent, JStr("double")}, ok \in BOOLEAN :
          AdminGetAllRooms(cred, inactive, type, ok) /\ UNCHANGED rateVars
    \/ \E cred \in MutateCreds, id \in PipeRoomIds :
          AdminGetRoom(cred, id) /\ UNCHANGED rateVars
    \/ \E ok \in BOOLEAN : GetRooms(ok) /\ UNCHANGED rateVars
    \/ \E ok \in BOOLEAN : GetFeaturedRooms(ok) /\ UNCHANGED rateVars
    \/ \E slug \in RoomSlugs, ok \in BOOLEAN :
          GetRoomBySlug(slug, ok) /\ UNCHANGED rateVars
    \/ \E type \in RoomTypes, ok \in BOOLEAN :
          GetRoomsByType(type, ok) /\ UNCHANGED rateVars

SpecRooms == InitRooms /\ [][NextRooms]_vars

\* the rows of the inquiry tables stay, and a booking inquiry keeps the
\* room it names
InquiriesKeepRoom ==
    /\ Len(inquiries') >= Len(inquiries)
    /\ \A k \in 1..Len(inquiries) :
          /\ inquiries'[k].table = inquiries[k].table
          /\ inquiries[k].table = "inquiries"
             => inquiries'[k].room_id = inquiries[k].room_id

\* the request changed nothing but the flag of one room, which is now as
\* given
FlagSet(active) ==
    \E id \in 1..Len(rooms) : rooms' = [rooms EXCEPT ![id].is_active = active]

C21_Step ==
    /\ Len(rooms') >= Len(rooms)
    /\ InquiriesKeepRoom
    /\ (last' # last /\ last'.op = "delete_room")
       => IF last'.response.status = 200 THEN FlagSet(FALSE)
          ELSE rooms' = rooms
    /\ (last' # last /\ last'.op = "activate_room")
       => IF last'.response.status = 200 THEN FlagSet(TRUE)
          ELSE rooms' = rooms

C23_Step ==
    (\E i \in 1..Len(rooms) : rooms[i].is_active /\ ~rooms'[i].is_active)
    => /\ last'.handler
       /\ last'.user \in 1..Len(users)
       /\ users[last'.user].role = "admin"

C23_DeactivationOnlyByAdmin == [][C23_Step]_vars

PublicRoomOps ==
    {"get_rooms", "get_featured_rooms", "get_room_by_slug", "get_rooms_by_type"}

\* the ids in the answer
Listed == { last.listed[k] : k \in 1..Len(last.listed) }

ActiveRooms == { i \in 1..Len(rooms) : rooms[i].is_active }

\* C30: the answer of a public room endpoint holds only rooms that are
\* active when the request is served, the public list holds all of them,
\* and the admin list without parameters holds every room.
C30_PublicRoomsAreActive ==
    /\ last.op \in PublicRoomOps => Listed \subseteq ActiveRooms
    /\ (last.op = "get_rooms" /\ last.response.status = 200)
       => Listed = ActiveRooms
    /\ (last.op = "get_room_by_slug" /\ last.response.status = 200)
       => \E i \in ActiveRooms :
             /\ last.listed = <<i>>
             /\ rooms[i].slug = last.data.f["slug"].s
    /\ (last.op = "get_room_by_slug" /\ last.response.status = 404)
       => \A i \in ActiveRooms : rooms[i].slug # last.data.f["slug"].s
    /\ (/\ last.op = "admin_get_all_rooms" /\ last.response.status = 200
        /\ last.handler
        /\ ~Has(last.data, "is_active") /\ ~Has(last.data, "type"))
       => Listed = 1..Len(rooms)

\* the public list was served while a room was inactive and another
\* active
C30_Witness ==
    /\ last.op = "get_rooms" /\ last.response.status = 200
    /\ Listed # {} /\ Listed # 1..Len(rooms)

(***************************************************************************)
(* Inquiries under sequences of requests: any number of submissions (up to *)
(* a number of stored rows) and of requests to the views that set the      *)
(* status of an inquiry, by an anonymous caller, the admin or a second     *)
(* principal of any role.                                                  *)
(***************************************************************************)
\* the two inquiry tables together hold at most this many rows
MaxStored == 3

InitStatus ==
    /\ \E r \in ROLES :
          /\ users = <<SeedAdmin, SecondUser(r)>>
          /\ issued = {generate_token(SeedAdmin, 0),
                       generate_token(SecondUser(r), 0)}
    /\ rooms = <<SeedRoom, DoubleRoom>>
    /\ inquiries = <<SeedInquiry, SeedEventInquiry>>
    /\ clock = 0
    /\ last = Idle
    /\ InitRateVars

SetStatusBodies ==
    { Malformed, Object(EmptyObject),
      Object([EmptyObject EXCEPT !["status"] = JStr("archived")]),
      Object([EmptyObject EXCEPT !["status"] = JStr("new")]),
      Object([EmptyObject EXCEPT !["status"] = JStr("done")]),
      Object([EmptyObject EXCEPT !["status"] = JInt(3)]) }

\* path parameters: the seeded row and a missing one
StatusIds == {1, 3}

NextStatus ==
    \/ \E cred \in MutateCreds, id \in StatusIds, data \in SetStatusBodies,
          ok \in BOOLEAN :
          UpdateInquiry(cred, id, data, ok) /\ UNCHANGED rateVars
    \/ \E cred \in MutateCreds, id \in StatusIds, data \in SetStatusBodies,
          ok \in BOOLEAN :
          UpdateEventInquiry(cred, id, data, ok) /\ UNCHANGED rateVars
    \/ \E cred \in MutateCreds, id \in StatusIds, ok \in BOOLEAN :
          MarkInquiryRead(cred, id, ok) /\ UNCHANGED rateVars
    \/ \E cred \in MutateCreds, id \in StatusIds, ok \in BOOLEAN :
          MarkInquiryReplied(cred, id, ok) /\ UNCHANGED rateVars
    \/ \E cred \in MutateCreds, id \in StatusIds, ok \in BOOLEAN :
          DeleteInquiry(cred, id, ok) /\ UNCHANGED rateVars
    \/ \E cred \in MutateCreds, id \in StatusIds, ok \in BOOLEAN :
          DeleteEventInquiry(cred, id, ok) /\ UNCHANGED rateVars
    \/ \E ok \in BOOLEAN, mail \in BOOLEAN :
          /\ Len(inquiries) < MaxStored
          /\ CreateInquiry(Object(InquiryBase), ok, TRUE, mail)
          /\ UNCHANGED rateVars
    \/ \E ok \in BOOLEAN, mail \in BOOLEAN :
          /\ Len(inquiries) < MaxStored
          /\ CreateEventInquiry(Object(EventBase), ok, mail)
          /\ UNCHANGED rateVars

SpecStatus == InitStatus /\ [][NextStatus]_vars

\* C22: the status of an inquiry or event inquiry becomes archived only
\* in a request whose caller is a principal with the role manager or
\* admin.
C22_Step ==
    (\E k \in 1..Len(inquiries) :
        inquiries[k].status # "archived" /\ inquiries'[k].status = "archived")
    => /\ last'.handler
       /\ last'.user \in 1..Len(users)
       /\ users[last'.user].role \in {"manager", "admin"}

C22_ArchiveOnlyByManager == [][C22_Step]_vars

\* the views that set the status of a stored row
StatusOps ==
    {"update_inquiry", "update_event_inquiry", "mark_inquiry_read",
     "mark_inquiry_replied", "delete_inquiry", "delete_event_inquiry"}

C28_Step ==
    /\ \A k \in 1..Len(inquiries') : inquiries'[k].status \in valid_statuses
    /\ \A k \in 1..Len(inquiries') :
          k > Len(inquiries) => inquiries'[k].status = "new"
    /\ (last' # last /\ last'.op \in StatusOps /\ last'.response.status # 200)
       => inquiries' = inquiries

\* C28: the status of every stored inquiry and event inquiry is one of
\* new, read, replied, archived; a submitted row starts as new, and a
\* request to a view that sets the status either leaves a status of that
\* set or is refused and changes no row.
C28_StatusInSet == [][C28_Step]_vars

\* a status outside the set was refused while a submitted row was new and
\* a seeded row had moved on
C28_Witness ==
    /\ last.op \in {"update_inquiry", "update_event_inquiry"}
    /\ last.response.status = 400 /\ last.handler
    /\ Len(inquiries) = 3 /\ inquiries[3].status = "new"
    /\ inquiries[1].status = "replied"

(***************************************************************************)
(* validate_check_dates on its own: a pair of values and a time of day are *)
(* drawn, then the function is applied to them.  `last` holds the pair as  *)
(* data and the result as response (200 for (True, None), 400 with the     *)
(* message otherwise).                                                     *)
(***************************************************************************)
DateValues ==
    { JNull, JInt(3), JStr(""), JStr("03/11/2026"), JStr("2020-01-01"),
      JStr("2026-11-02"), JStr("2026-11-03"), JStr("2026-11-04"),
      JStr("2026-12-01") }

\* midnight and the last minute of 2026-11-03, and the midnight after
DateClocks == {0, 1439, 1440}

InitDates ==
    /\ users = <<SeedAdmin>>
    /\ rooms = <<SeedRoom>>
    /\ inquiries = <<>>
    /\ issued = {}
    /\ clock \in DateClocks
    /\ \E check_in \in DateValues, check_out \in DateValues :
          last = [Idle EXCEPT !.data =
                     Object([EmptyObject EXCEPT !["check_in"] = check_in,
                                                !["check_out"] = check_out])]
    /\ InitRateVars

ValidateCheckDates ==
    LET r == validate_check_dates(last.data.f["check_in"],
                                  last.data.f["check_out"], clock)
    IN
    /\ last.op = "none"
    /\ last' = [last EXCEPT !.op = "validate_check_dates",
                            !.response = IF r.ok THEN Ok(200)
                                         ELSE Plain(400, "false", r.message)]
    /\ UNCHANGED <<users, rooms, inquiries, clock, issued>>

NextDates == ValidateCheckDates /\ UNCHANGED rateVars

SpecDates == InitDates /\ [][NextDates]_vars

\* the value is a date in the format YYYY-MM-DD
IsDate(value) == value.t = "str" /\ strptime(value.s).ok

Day(value) == strptime(value.s).day

\* C24: validate_check_dates reports the first rule that fails, in the
\* order check-in format, check-out format, check-in not before today,
\* check-out after check-in, and passes exactly when all four hold.
C24_FirstFailingRule ==
    last.op = "validate_check_dates"
    => LET check_in == last.data.f["check_in"]
           check_out == last.data.f["check_out"]
           message == last.response.error
       IN
       /\ last.response.status = 200
          <=> /\ IsDate(check_in) /\ IsDate(check_out)
              /\ Day(check_in) >= today(clock)
              /\ Day(check_out) > Day(check_in)
       /\ ~IsDate(check_in)
          => message = "Invalid check-in date format. Use YYYY-MM-DD."
       /\ (IsDate(check_in) /\ ~IsDate(check_out))
          => message = "Invalid check-out date format. Use YYYY-MM-DD."
       /\ (IsDate(check_in) /\ IsDate(check_out)
           /\ Day(check_in) < today(clock))
          => message = "Check-in date cannot be in the past."
       /\ (IsDate(check_in) /\ IsDate(check_out)
           /\ Day(check_in) >= today(clock)
           /\ Day(check_out) <= Day(check_in))
          => message = "Check-out date must be after check-in date."

\* a pair whose check-in is past and whose check-out is not after it was
\* refused with the past-date message
C24_Witness ==
    /\ last.op = "validate_check_dates"
    /\ IsDate(last.data.f["check_in"]) /\ IsDate(last.data.f["check_out"])
    /\ Day(last.data.f["check_in"]) < today(clock)
    /\ Day(last.data.f["check_out"]) <= Day(last.data.f["check_in"])
    /\ last.response.error = "Check-in date cannot be in the past."

(***************************************************************************)
(* Login and the stored state (under SpecAuth, where principals are        *)
(* deactivated and reactivated and time passes between the requests).      *)
(***************************************************************************)
\* the principals the body of the request names: those whose email is the
\* email of the body, trimmed and in lower case
NamedBy(data) ==
    { i \in 1..Len(users) :
        /\ data.f["email"].t = "str"
        /\ users[i].email = lower(strip(data.f["email"].s)) }

\* those of them whose stored hash was made from the password of the body
\* and who are active
Verified(data) ==
    { i \in NamedBy(data) :
        /\ data.f["password"].t = "str"
        /\ users[i].password_hash = <<"bcrypt", data.f["password"].s>>
        /\ users[i].is_active }

C25_Step ==
    /\ \A t \in issued' \ issued :
          /\ last'.op = "login" /\ last'.response.status = 200
          /\ t.payload.user_id \in Verified(last'.data)
    /\ (last' # last /\ last'.op = "login")
       => /\ rooms' = rooms /\ inquiries' = inquiries
          /\ IF last'.response.status = 200
             THEN \E i \in Verified(last'.data) :
                     users' = [users EXCEPT ![i].last_login = clock]
             ELSE users' = users /\ issued' \subseteq issued

AppliedCompletely(data) ==
    LET id == Updated([data |-> data]) IN
    \A k \in 1..Len(update_room_order) :
       LET field == update_room_order[k] IN
       Has(data, field)
       => rooms'[id][field] =
             update_room_field(rooms[id], field, data.f[field], rooms,
                               id).room[field]

C26_Step ==
    (last' # last /\ last'.op = "update_room")
    => /\ last'.response.status # 200 => rooms' = rooms
       /\ last'.response.status = 200
          => /\ AppliedCompletely(last'.data)
             /\ \A i \in 1..Len(rooms) :
                   i # Updated(last') => rooms'[i] = rooms[i]
             /\ Len(rooms') = Len(rooms)

\* C26: a room update that is not answered 200 leaves every field of every
\* room as it was, also when earlier fields of the body had been assigned
\* before the rule of a later field failed; one that is answered 200 has
\* written every field of its body.
C26_UpdateAllOrNothing == [][C26_Step]_vars

\* the name of the body had been assigned when its type was refused, and
\* the room has the name it had
C26_Witness ==
    /\ last.op = "update_room" /\ last.response.status = 400
    /\ Has(last.data, "name") /\ Has(last.data, "type")
    /\ \E i \in 1..Len(last.steps) : last.steps[i] = "assign"
    /\ rooms[Updated(last)].name # sanitize_string(last.data.f["name"], 100)

(***************************************************************************)
(* change-password and the stored credentials (under SpecMutate).          *)
(***************************************************************************)
\* the body carries the password the stored hash of the principal was
\* made from, and a new password of at least 8 characters
MayChangePassword(id, data) ==
    /\ data.kind = "object"
    /\ data.f["current_password"].t = "str"
    /\ users[id].password_hash = <<"bcrypt", data.f["current_password"].s>>
    /\ data.f["new_password"].t = "str"
    /\ Len(data.f["new_password"].s) >= 8

C27_Step ==
    (last' # last /\ last'.op = "change_password")
    => /\ Len(users') = Len(users)
       /\ \A i \in 1..Len(users) :
             /\ i # last'.user => users'[i] = users[i]
             /\ users'[i].role = users[i].role
             /\ users'[i].is_active = users[i].is_active
             /\ users'[i].password_hash # users[i].password_hash
                => /\ last'.handler /\ last'.response.status = 200
                   /\ MayChangePassword(i, last'.data)
       /\ last'.response.status # 200 => users' = users
       /\ last'.response.status = 200
          => users'[last'.user].password_hash =
                <<"bcrypt", last'.data.f["new_password"].s>>

\* C27: change-password replaces the stored hash of the caller only when
\* the current password of the body verifies and the new one has at least
\* 8 characters; with every other answer the users table is as it was;
\* no row of another principal, and neither role nor is_active of the
\* caller, changes.
C27_PasswordChangedOnlyWhenVerified == [][C27_Step]_vars

\* the second principal has replaced its password
C27_Witness ==
    /\ last.op = "change_password" /\ last.response.status = 200
    /\ last.user = 2
    /\ users[2].password_hash = <<"bcrypt", "newpass123">>
    /\ users[1] = SeedAdmin

(***************************************************************************)
(* The stored booking inquiries (under SpecInquiry, where the clock stands *)
(* at the time of the submission).                                         *)
(***************************************************************************)
\* the body supplies the field: it is there with a value that is true
Supplies(data, field) == bool(Get(data, field))

StayInvariant(row) ==
    /\ row.check_in.set <=> row.check_out.set
    /\ row.check_in.set
       => /\ row.check_in.day >= today(clock)
          /\ row.check_out.day > row.check_in.day
    /\ row.guests.set => row.guests.n \in 1..booking_capacity

C29_Step ==
    /\ \A k \in 1..Len(inquiries') :
          inquiries'[k].table = "inquiries" => StayInvariant(inquiries'[k])
    /\ (/\ last' # last /\ last'.op = "create_inquiry"
        /\ last'.response.status = 201
        /\ Supplies(last'.data, "check_in") # Supplies(last'.data, "check_out"))
       => /\ Len(inquiries') = Len(inquiries) + 1
          /\ ~inquiries'[Len(inquiries')].check_in.set
          /\ ~inquiries'[Len(inquiries')].check_out.set

\* C29: every row stored by the booking-inquiry view has both dates or
\* none, a check-in not before the day of the submission with a check-out
\* after it, and no guest count or one from 1 to 10; a submission with one
\* of the two dates is stored without dates.
C29_StoredStayIsConsistent == [][C29_Step]_vars

\* a booking with a check-in of today and three guests was stored
C29_Witness ==
    /\ last.op = "create_inquiry" /\ last.response.status = 201
    /\ Len(inquiries) = 1
    /\ inquiries[1].check_in = [set |-> TRUE, day |-> today(clock)]
    /\ inquiries[1].check_out.set
    /\ inquiries[1].guests = [set |-> TRUE, n |-> 3]

====
